---- MODULE Spec2Model ----
(***************************************************************************)
(* A model of the ocean.js client layer: the Pool, SideStaking and         *)
(* NftFactory wrappers around their contracts.  One client call is a       *)
(* record in `call`; it advances at the points where the TypeScript code   *)
(* awaits the network (reads, gas estimation, send).  `chain` is the       *)
(* contract state the calls read and, through send, change.                *)
(***************************************************************************)
EXTENDS Integers, Sequences, FiniteSets, TLC

VARIABLES chain, call

vars == <<chain, call>>

----------------------------------------------------------------------------
(* Bounds of the model *)

\* gas estimates the node may answer: 1..MaxGas
MaxGas == 2
\* confirmed transactions in one behaviour
MaxTx == 1
\* human amounts a caller may request: 1..MaxAmount (whole tokens)
MaxAmount == 3
\* initial reserve of each token in the pool, in whole tokens
InitReserve == 4
\* decimal precision of the base token and of the datatoken
BaseDecimals == 1
DtDecimals == 2
\* swap fees a caller may set: 1..MaxFee
MaxFee == 1

----------------------------------------------------------------------------
(* Program constants *)

GASLIMIT_DEFAULT == 1000000

Tokens == {"baseToken", "datatoken"}
Accounts == {"alice", "bob"}
FactoryOwner == "alice"
\* the accounts that swap and move liquidity; these operations check no caller
Traders == {"bob"}

OtherToken(t) == IF t = "baseToken" THEN "datatoken" ELSE "baseToken"

----------------------------------------------------------------------------
(* Amounts.  A human-readable amount is held as an integer number of       *)
(* 10^-Scale; an amount in a token's integer units is scaled by the        *)
(* token's own precision.                                                  *)

RECURSIVE Pow10(_)
Pow10(n) == IF n <= 0 THEN 1 ELSE 10 * Pow10(n - 1)

MaxDecimals == IF BaseDecimals > DtDecimals THEN BaseDecimals ELSE DtDecimals
Scale == MaxDecimals + 1
Human(n) == n * Pow10(Scale)

\* the token contract's decimals()
decimals(token) == IF token = "baseToken" THEN BaseDecimals ELSE DtDecimals

\* tokenDecimals || decimals(): an absent (0) override falls to the query
ResolveDecimals(token, tokenDecimals) ==
  IF tokenDecimals # 0 THEN tokenDecimals ELSE decimals(token)

\* SmartContract.unitsToAmount: units / 10^decimals
unitsToAmount(token, amount, tokenDecimals) ==
  amount * Pow10(Scale - ResolveDecimals(token, tokenDecimals))

\* SmartContract.amountToUnits: amount * 10^decimals
amountToUnits(token, amount, tokenDecimals) ==
  amount \div Pow10(Scale - ResolveDecimals(token, tokenDecimals))

\* An argument handed to a contract method
Address(a) == [kind |-> "address", s |-> a, n |-> 0]
Number(x) == [kind |-> "number", s |-> "", n |-> x]
\* amountToUnits' result: an integer number of token units
Units(x) == [kind |-> "units", s |-> "", n |-> x]
\* a Promise of units that was not awaited
Pending(x) == [kind |-> "promise", s |-> "", n |-> x]
\* web3.utils.toWei: a value scaled by 10^18, kept symbolic
toWei(x) == [kind |-> "wei", s |-> "", n |-> x]
\* MAX_UINT_256
MAX_UINT_256 == [kind |-> "MAX_UINT_256", s |-> "", n |-> 0]

\* utils calcMaxExactIn / calcMaxExactOut: the pool's ratio of the reserve
calcMaxExactIn(reserve) == reserve \div 2
calcMaxExactOut(reserve) == reserve \div 2

----------------------------------------------------------------------------
(* The contracts (external): what a read answers and what a confirmed      *)
(* transaction does.                                                       *)

\* BPool.getAmountOutExactIn / swapExactAmountIn: amount of tokenOut for amountIn
BPool_calcOutGivenIn(ch, tokenIn, tokenOut, amountIn) ==
  (amountIn * ch.reserve[tokenOut]) \div (ch.reserve[tokenIn] + amountIn)

\* BPool.getAmountInExactOut / swapExactAmountOut: amount of tokenIn for amountOut
BPool_calcInGivenOut(ch, tokenIn, tokenOut, amountOut) ==
  ((amountOut * ch.reserve[tokenIn]) \div (ch.reserve[tokenOut] - amountOut)) + 1

\* the four fee amounts the pool charges on amountIn, in tokenIn units
BPool_fees(amountIn) ==
  [lpFeeAmount |-> amountIn \div 10,
   oceanFeeAmount |-> amountIn \div 5,
   publishMarketSwapFeeAmount |-> amountIn \div 4,
   consumeMarketSwapFeeAmount |-> amountIn \div 2]

\* a confirmed transaction: one more transaction, one more event
Confirm(ch) == [ch EXCEPT !.txCount = @ + 1]

InitChain ==
  [reserve |-> [t \in Tokens |-> InitReserve * Pow10(decimals(t))],
   swapFee |-> 0,
   collector |-> "alice",
   controller |-> "alice",
   nftTemplates |-> <<TRUE, FALSE>>,
   tokenTemplates |-> <<TRUE, FALSE>>,
   nftCount |-> 0,
   nftURIs |-> <<>>,
   nft |-> [owner |-> "alice", manager |-> {"alice"}, deployERC20 |-> {},
            updateMetadata |-> {}, store |-> {}, metadataState |-> 0],
   txCount |-> 0]

----------------------------------------------------------------------------
(* One client call *)

NoQuote ==
  [tokenAmount |-> 0, liquidityProviderSwapFeeAmount |-> 0, oceanFeeAmount |-> 0,
   publishMarketSwapFeeAmount |-> 0, consumeMarketSwapFeeAmount |-> 0]

NoCall ==
  [op |-> "none", pc |-> "idle", caller |-> "alice", estimateOnly |-> FALSE,
   tokenIn |-> "baseToken", tokenOut |-> "datatoken",
   amount |-> 0, inDec |-> 0, outDec |-> 0, maxPrice |-> 0, arg |-> 0, addr |-> "alice",
   units |-> 0, unitsExp |-> 0, precIn |-> 0, precOut |-> 0,
   queriedIn |-> FALSE, queriedOut |-> FALSE,
   maxSwap |-> 0, reserveReads |-> 0, calcCount |-> 0,
   estCount |-> 0, estFailed |-> FALSE, estMethod |-> "none", estArgs |-> <<>>, estGas |-> 0,
   sendCount |-> 0, sendMethod |-> "none", sendArgs |-> <<>>, sendGas |-> 0,
   outcome |-> "none", error |-> "none", errBound |-> 0, ret |-> 0, retExp |-> 0,
   raw |-> NoQuote, quote |-> NoQuote,
   tokenURI |-> "", chain0 |-> InitChain, sendChain |-> InitChain]

\* variant: the call goes straight to submission, the estimation left out
NewCall_noEstimation(op, caller, estimateOnly) ==
  [NoCall EXCEPT !.op = op, !.pc = "estimated", !.caller = caller,
                 !.estimateOnly = estimateOnly, !.chain0 = chain]

\* a call enters an operation: its arguments, and the chain as it finds it
NewCall(op, caller, estimateOnly) ==
  [NoCall EXCEPT !.op = op, !.pc = "built", !.caller = caller,
                 !.estimateOnly = estimateOnly, !.chain0 = chain]

Callable(c) == call[c].pc = "idle"
At(c, op, pc) == call[c].op = op /\ call[c].pc = pc

\* throw new Error(...) / a rejected await that nothing catches
Throw(k, error) == [k EXCEPT !.pc = "done", !.outcome = "error", !.error = error]

\* variant: the amount above the bound is noted and the call carries on
ThrowBound_carriesOn(k, maxSwap) == [k EXCEPT !.maxSwap = maxSwap]

\* throw new Error(`... is greater than ${maxSwap.toString()}`)
ThrowBound(k, maxSwap) ==
  [k EXCEPT !.pc = "done", !.outcome = "error", !.error = "AmountExceedsBound",
            !.errBound = maxSwap]

\* estGas = await calculateEstimatedGas(from, method, ...args)
AfterEstimate(k, method, args, failed, gas) ==
  [k EXCEPT !.pc = "estimated", !.estCount = @ + 1, !.estFailed = failed,
            !.estMethod = method, !.estArgs = args, !.estGas = gas]

\* variant: the estimateGas flag is not looked at
ReturnIfEstimate_flagIgnored(k) == k

\* if (estimateGas) return estGas
ReturnIfEstimate(k) ==
  IF k.estimateOnly THEN [k EXCEPT !.pc = "done", !.outcome = "estimate", !.ret = k.estGas]
  ELSE k

\* method(...args).send({ from, gas, gasPrice })
AfterSend(k, method, args, gas) ==
  [k EXCEPT !.sendCount = @ + 1, !.sendMethod = method, !.sendArgs = args, !.sendGas = gas,
            !.sendChain = chain]

\* return trxReceipt, the receipt of the confirmed transaction
ReturnReceipt(k) == [k EXCEPT !.pc = "done", !.outcome = "receipt"]

\* variant: the catch block submits the transaction a second time
ReturnNull_resend(k) ==
  [k EXCEPT !.pc = "done", !.outcome = "null", !.sendCount = @ + 1]

\* catch (e) { LoggerInstance.error(...) } ... return trxReceipt, still null
ReturnNull(k) == [k EXCEPT !.pc = "done", !.outcome = "null"]

\* utils calculateEstimatedGas: the node's estimate, or the default when it throws
calculateEstimatedGas(ok, g) == IF ok THEN g ELSE GASLIMIT_DEFAULT

GasChoices == 1..MaxGas

FeeChoices == 1..MaxFee
AmountChoices == {Human(n) : n \in 1..MaxAmount}
DecimalsChoices == {0, BaseDecimals, DtDecimals}
MaxPriceChoices == {0, Human(1)}

----------------------------------------------------------------------------
(* Pool: read accessors used by the operations *)

\* Pool.getReserve: the reserve in human units; a failed read leaves amount
\* null and amount.toString() throws
getReserve(ch, token, tokenDecimals, readOk) ==
  [threw |-> ~readOk,
   value |-> IF readOk THEN unitsToAmount(token, ch.reserve[token], tokenDecimals) ELSE 0]

\* variant: the whole reserve is taken as the bound
getMaxSwapExactIn_wholeReserve(ch, token, readOk) ==
  LET reserve == getReserve(ch, token, 0, readOk)
  IN  [threw |-> reserve.threw, value |-> reserve.value]

\* variant: the bound is cut down to whole tokens
getMaxSwapExactIn_wholeTokens(ch, token, readOk) ==
  LET reserve == getReserve(ch, token, 0, readOk)
  IN  [threw |-> reserve.threw,
       value |-> (calcMaxExactIn(reserve.value) \div Pow10(Scale)) * Pow10(Scale)]

\* variant: the bound is computed once, from the reserve at construction
getMaxSwapExactIn_cached(ch, token, readOk) ==
  LET reserve == getReserve(InitChain, token, 0, readOk)
  IN  [threw |-> reserve.threw, value |-> calcMaxExactIn(reserve.value)]

\* Pool.getMaxSwapExactIn
getMaxSwapExactIn(ch, token, readOk) ==
  LET reserve == getReserve(ch, token, 0, readOk)
  IN  [threw |-> reserve.threw, value |-> calcMaxExactIn(reserve.value)]

\* variant: the whole reserve is taken as the bound
getMaxSwapExactOut_wholeReserve(ch, token, readOk) ==
  LET reserve == getReserve(ch, token, 0, readOk)
  IN  [threw |-> reserve.threw, value |-> reserve.value]

\* Pool.getMaxSwapExactOut
getMaxSwapExactOut(ch, token, readOk) ==
  LET reserve == getReserve(ch, token, 0, readOk)
  IN  [threw |-> reserve.threw, value |-> calcMaxExactOut(reserve.value)]

\* variant: the add-liquidity bound is the whole reserve
getMaxAddLiquidity_wholeReserve(ch, token, readOk) ==
  LET reserve == getReserve(ch, token, 0, readOk)
  IN  [threw |-> reserve.threw, value |-> reserve.value]

\* Pool.getMaxAddLiquidity
getMaxAddLiquidity(ch, token, readOk) ==
  LET reserve == getReserve(ch, token, 0, readOk)
  IN  [threw |-> reserve.threw, value |-> calcMaxExactIn(reserve.value)]

\* Pool.getMaxRemoveLiquidity
getMaxRemoveLiquidity(ch, token, readOk) ==
  LET reserve == getReserve(ch, token, 0, readOk)
  IN  [threw |-> reserve.threw, value |-> calcMaxExactIn(reserve.value)]

\* Pool.getBasetoken
getBasetoken == "baseToken"

\* variant: the collector the pool was deployed with, not the current one
getMarketFeeCollector_deployed(ch, readOk) ==
  IF readOk THEN InitChain.collector ELSE "null"

\* Pool.getMarketFeeCollector: null when the read fails
getMarketFeeCollector(ch, readOk) == IF readOk THEN ch.collector ELSE "null"

----------------------------------------------------------------------------
(* The estimate-then-submit steps the Pool and SideStaking operations share *)

\* const estGas = await calculateEstimatedGas(...); if (estimateGas) return estGas
Estimate(c, op, method, args) ==
  /\ At(c, op, "built")
  /\ \E ok \in BOOLEAN, g \in GasChoices :
       call' = [call EXCEPT ![c] =
                  ReturnIfEstimate(
                    AfterEstimate(@, method, args, ~ok, calculateEstimatedGas(ok, g)))]
  /\ UNCHANGED chain

\* try { trxReceipt = await method(...).send(...) } catch (e) { log }; return trxReceipt
SendCaught(c, op, method, args, gas, accepts, effect) ==
  /\ At(c, op, "estimated")
  /\ \/ /\ accepts
        /\ chain.txCount < MaxTx
        /\ chain' = Confirm(effect)
        /\ call' = [call EXCEPT ![c] = ReturnReceipt(AfterSend(@, method, args, gas))]
     \/ /\ UNCHANGED chain
        /\ call' = [call EXCEPT ![c] = ReturnNull(AfterSend(@, method, args, gas))]

\* const receipt = await method(...).send(...); return receipt
SendUncaught(c, op, method, args, gas, accepts, effect) ==
  /\ At(c, op, "estimated")
  /\ \/ /\ accepts
        /\ chain.txCount < MaxTx
        /\ chain' = Confirm(effect)
        /\ call' = [call EXCEPT ![c] = ReturnReceipt(AfterSend(@, method, args, gas))]
     \/ /\ UNCHANGED chain
        /\ call' = [call EXCEPT ![c] = Throw(AfterSend(@, method, args, gas), "Reverted")]

----------------------------------------------------------------------------
(* Pool: mutating operations *)

Pool_setSwapFee(c) ==
  \/ /\ Callable(c)
     /\ \E account \in Accounts, fee \in FeeChoices, estimateGas \in BOOLEAN :
          call' = [call EXCEPT ![c] =
                     [NewCall("Pool.setSwapFee", account, estimateGas) EXCEPT !.arg = fee]]
     /\ UNCHANGED chain
  \/ Estimate(c, "Pool.setSwapFee", "setSwapFee", <<Number(call[c].arg)>>)
  \/ SendCaught(c, "Pool.setSwapFee", "setSwapFee", <<toWei(call[c].arg)>>,
                call[c].estGas, TRUE, [chain EXCEPT !.swapFee = call[c].arg])

Pool_collectOPC(c) ==
  \/ /\ Callable(c)
     /\ \E address \in Accounts, estimateGas \in BOOLEAN :
          call' = [call EXCEPT ![c] = NewCall("Pool.collectOPC", address, estimateGas)]
     /\ UNCHANGED chain
  \/ Estimate(c, "Pool.collectOPC", "collectOPC", <<>>)
  \/ SendCaught(c, "Pool.collectOPC", "collectOPC", <<>>,
                call[c].estGas + 1, TRUE, chain)

Pool_collectMarketFee(c) ==
  \/ /\ Callable(c)
     /\ \E address \in Accounts, estimateGas \in BOOLEAN, readOk \in BOOLEAN :
          LET k == NewCall("Pool.collectMarketFee", address, estimateGas)
          IN  call' = [call EXCEPT ![c] =
                         IF getMarketFeeCollector(chain, readOk) # address
                         THEN Throw(k, "Caller is not MarketFeeCollector")
                         ELSE k]
     /\ UNCHANGED chain
  \/ Estimate(c, "Pool.collectMarketFee", "collectMarketFee", <<>>)
  \/ SendCaught(c, "Pool.collectMarketFee", "collectMarketFee", <<>>,
                call[c].estGas + 1, TRUE, chain)

Pool_updatePublishMarketFee(c) ==
  \/ /\ Callable(c)
     /\ \E address \in Accounts, newPublishMarketAddress \in Accounts,
           newPublishMarketSwapFee \in FeeChoices,
           estimateGas \in BOOLEAN, readOk \in BOOLEAN :
          LET k == [NewCall("Pool.updatePublishMarketFee", address, estimateGas)
                      EXCEPT !.arg = newPublishMarketSwapFee,
                             !.addr = newPublishMarketAddress]
          IN  call' = [call EXCEPT ![c] =
                         IF getMarketFeeCollector(chain, readOk) # address
                         THEN Throw(k, "Caller is not MarketFeeCollector")
                         ELSE k]
     /\ UNCHANGED chain
  \/ Estimate(c, "Pool.updatePublishMarketFee", "updatePublishMarketFee",
              <<Address(call[c].addr), toWei(call[c].arg)>>)
  \/ SendCaught(c, "Pool.updatePublishMarketFee", "updatePublishMarketFee",
                <<Address(call[c].addr), toWei(call[c].arg)>>,
                call[c].estGas + 1, TRUE,
                [chain EXCEPT !.collector = call[c].addr])

\* BPool.swapExactAmountIn / joinswapExternAmountIn: require(amountIn <= balance * MAX_IN_RATIO)
BPool_acceptsIn(ch, tokenIn, amountIn) ==
  amountIn > 0 /\ amountIn <= ch.reserve[tokenIn] \div 2

\* BPool.swapExactAmountOut / exitswapPoolAmountIn: require(amountOut <= balance * MAX_OUT_RATIO)
BPool_acceptsOut(ch, tokenOut, amountOut) ==
  amountOut > 0 /\ amountOut <= ch.reserve[tokenOut] \div 2

\* BPool.swapExactAmountIn, confirmed
BPool_swapExactAmountIn(ch, tokenIn, tokenOut, amountIn) ==
  [ch EXCEPT !.reserve =
     [@ EXCEPT ![tokenIn] = @ + amountIn,
               ![tokenOut] = @ - BPool_calcOutGivenIn(ch, tokenIn, tokenOut, amountIn)]]

\* BPool.swapExactAmountOut, confirmed
BPool_swapExactAmountOut(ch, tokenIn, tokenOut, amountOut) ==
  [ch EXCEPT !.reserve =
     [@ EXCEPT ![tokenIn] = @ + BPool_calcInGivenOut(ch, tokenIn, tokenOut, amountOut),
               ![tokenOut] = @ - amountOut]]

\* BPool.joinswapExternAmountIn, confirmed
BPool_joinswapExternAmountIn(ch, amountIn) ==
  [ch EXCEPT !.reserve = [@ EXCEPT !["baseToken"] = @ + amountIn]]

\* BPool.calcSingleOutPoolIn: base-token units paid for poolAmountIn shares
BPool_calcSingleOutPoolIn(ch, poolAmountIn) ==
  poolAmountIn \div Pow10(Scale - decimals("baseToken"))

\* BPool.exitswapPoolAmountIn, confirmed
BPool_exitswapPoolAmountIn(ch, poolAmountIn) ==
  [ch EXCEPT !.reserve =
     [@ EXCEPT !["baseToken"] = @ - BPool_calcSingleOutPoolIn(ch, poolAmountIn)]]

\* the arguments swapExactAmountIn hands to the contract method
swapExactAmountIn_args(k) ==
  << Address(k.tokenIn), Address(k.tokenOut), Address("marketFeeAddress"),
     Units(k.units), Units(0),
     IF k.maxPrice # 0
     THEN Units(amountToUnits(getBasetoken, k.maxPrice, 0))
     ELSE MAX_UINT_256,
     toWei(k.arg) >>

\* Pool.swapExactAmountIn, for calls whose tokenInDecimals, maxPrice and
\* estimateGas arguments are drawn from the given sets
swapExactAmountIn_from(c, decimalsChoices, maxPriceChoices, estimateGasChoices) ==
  \/ /\ Callable(c)
     /\ \E address \in Traders, tokenIn \in Tokens, tokenAmountIn \in AmountChoices,
           tokenInDecimals \in decimalsChoices, maxPrice \in maxPriceChoices,
           swapMarketFee \in FeeChoices, estimateGas \in estimateGasChoices,
           readOk \in BOOLEAN :
          LET k == [NewCall("Pool.swapExactAmountIn", address, estimateGas)
                      EXCEPT !.tokenIn = tokenIn, !.tokenOut = OtherToken(tokenIn),
                             !.amount = tokenAmountIn, !.inDec = tokenInDecimals,
                             !.maxPrice = maxPrice, !.arg = swapMarketFee,
                             !.reserveReads = 1]
              maxSwap == getMaxSwapExactIn(chain, tokenIn, readOk)
          IN  call' = [call EXCEPT ![c] =
                         IF maxSwap.threw THEN Throw(k, "TypeError")
                         ELSE IF tokenAmountIn > maxSwap.value
                         THEN ThrowBound(k, maxSwap.value)
                         ELSE [k EXCEPT !.maxSwap = maxSwap.value,
                                        !.units = amountToUnits(tokenIn, tokenAmountIn,
                                                                tokenInDecimals)]]
     /\ UNCHANGED chain
  \/ Estimate(c, "Pool.swapExactAmountIn", "swapExactAmountIn",
              swapExactAmountIn_args(call[c]))
  \/ SendCaught(c, "Pool.swapExactAmountIn", "swapExactAmountIn",
                swapExactAmountIn_args(call[c]), call[c].estGas + 1,
                BPool_acceptsIn(chain, call[c].tokenIn, call[c].units),
                BPool_swapExactAmountIn(chain, call[c].tokenIn, call[c].tokenOut,
                                        call[c].units))

Pool_swapExactAmountIn(c) ==
  swapExactAmountIn_from(c, DecimalsChoices, MaxPriceChoices, BOOLEAN)

\* the arguments swapExactAmountOut hands to the contract method; maxPrice is
\* the Promise amountToUnits returns, not awaited
swapExactAmountOut_args(k) ==
  << Address(k.tokenIn), Address(k.tokenOut), Address("marketFeeAddress"),
     Units(amountToUnits(k.tokenIn, Human(MaxAmount), k.inDec)), Units(k.units),
     IF k.maxPrice # 0
     THEN Pending(amountToUnits(getBasetoken, k.maxPrice, 0))
     ELSE MAX_UINT_256,
     toWei(k.arg) >>

Pool_swapExactAmountOut(c) ==
  \/ /\ Callable(c)
     /\ \E account \in Traders, tokenOut \in Tokens, tokenAmountOut \in AmountChoices,
           tokenOutDecimals \in DecimalsChoices, maxPrice \in MaxPriceChoices,
           swapMarketFee \in FeeChoices, estimateGas \in BOOLEAN, readOk \in BOOLEAN :
          LET k == [NewCall("Pool.swapExactAmountOut", account, estimateGas)
                      EXCEPT !.tokenIn = OtherToken(tokenOut), !.tokenOut = tokenOut,
                             !.amount = tokenAmountOut, !.outDec = tokenOutDecimals,
                             !.maxPrice = maxPrice, !.arg = swapMarketFee,
                             !.reserveReads = 1]
              maxSwap == getMaxSwapExactOut(chain, tokenOut, readOk)
          IN  call' = [call EXCEPT ![c] =
                         IF maxSwap.threw THEN Throw(k, "TypeError")
                         ELSE IF tokenAmountOut > maxSwap.value
                         THEN ThrowBound(k, maxSwap.value)
                         ELSE [k EXCEPT !.maxSwap = maxSwap.value,
                                        !.units = amountToUnits(tokenOut, tokenAmountOut,
                                                                tokenOutDecimals)]]
     /\ UNCHANGED chain
  \/ Estimate(c, "Pool.swapExactAmountOut", "swapExactAmountOut",
              swapExactAmountOut_args(call[c]))
  \/ SendCaught(c, "Pool.swapExactAmountOut", "swapExactAmountOut",
                swapExactAmountOut_args(call[c]), call[c].estGas + 1,
                BPool_acceptsOut(chain, call[c].tokenOut, call[c].units),
                BPool_swapExactAmountOut(chain, call[c].tokenIn, call[c].tokenOut,
                                         call[c].units))

Pool_joinswapExternAmountIn(c) ==
  \/ /\ Callable(c)
     /\ \E account \in Traders, tokenAmountIn \in AmountChoices,
           minPoolAmountOut \in FeeChoices, tokenInDecimals \in DecimalsChoices,
           estimateGas \in BOOLEAN, readOk \in BOOLEAN :
          LET tokenIn == getBasetoken
              k == [NewCall("Pool.joinswapExternAmountIn", account, estimateGas)
                      EXCEPT !.tokenIn = tokenIn, !.tokenOut = OtherToken(tokenIn),
                             !.amount = tokenAmountIn, !.inDec = tokenInDecimals,
                             !.arg = minPoolAmountOut, !.reserveReads = 1]
              maxSwap == getMaxAddLiquidity(chain, tokenIn, readOk)
          IN  call' = [call EXCEPT ![c] =
                         IF maxSwap.threw THEN Throw(k, "TypeError")
                         ELSE IF tokenAmountIn > maxSwap.value
                         THEN ThrowBound(k, maxSwap.value)
                         ELSE [k EXCEPT !.maxSwap = maxSwap.value,
                                        !.units = amountToUnits(tokenIn, tokenAmountIn,
                                                                tokenInDecimals)]]
     /\ UNCHANGED chain
  \/ Estimate(c, "Pool.joinswapExternAmountIn", "joinswapExternAmountIn",
              <<Units(call[c].units), toWei(call[c].arg)>>)
  \/ SendCaught(c, "Pool.joinswapExternAmountIn", "joinswapExternAmountIn",
                <<Units(call[c].units), toWei(call[c].arg)>>, call[c].estGas + 1,
                BPool_acceptsIn(chain, call[c].tokenIn, call[c].units),
                BPool_joinswapExternAmountIn(chain, call[c].units))

\* Pool.calcSingleOutGivenPoolIn: null when the read fails
calcSingleOutGivenPoolIn(ch, tokenOut, poolAmountIn, readOk) ==
  [isNull |-> ~readOk,
   value |-> IF readOk
             THEN unitsToAmount(tokenOut, BPool_calcSingleOutPoolIn(ch, poolAmountIn), 0)
             ELSE 0]

Pool_exitSwapPoolAmountIn(c) ==
  \/ /\ Callable(c)
     /\ \E account \in Traders, poolAmountIn \in AmountChoices,
           poolDecimals \in DecimalsChoices,
           estimateGas \in BOOLEAN, calcOk \in BOOLEAN, readOk \in BOOLEAN :
          LET tokenOut == getBasetoken
              k == [NewCall("Pool.exitSwapPoolAmountIn", account, estimateGas)
                      EXCEPT !.tokenIn = OtherToken(tokenOut), !.tokenOut = tokenOut,
                             !.amount = poolAmountIn, !.outDec = poolDecimals,
                             !.calcCount = 1]
              tokenAmountOut == calcSingleOutGivenPoolIn(chain, tokenOut, poolAmountIn, calcOk)
              maxSwap == getMaxRemoveLiquidity(chain, tokenOut, readOk)
          IN  call' = [call EXCEPT ![c] =
                         IF maxSwap.threw
                         THEN Throw([k EXCEPT !.reserveReads = 1], "TypeError")
                         ELSE IF tokenAmountOut.isNull
                         THEN Throw([k EXCEPT !.reserveReads = 1], "DecimalError")
                         ELSE IF tokenAmountOut.value > maxSwap.value
                         THEN ThrowBound([k EXCEPT !.reserveReads = 1], maxSwap.value)
                         ELSE [k EXCEPT !.reserveReads = 1, !.maxSwap = maxSwap.value,
                                        !.units = amountToUnits(getBasetoken, 0,
                                                                poolDecimals)]]
     /\ UNCHANGED chain
  \/ Estimate(c, "Pool.exitSwapPoolAmountIn", "exitswapPoolAmountIn",
              <<toWei(call[c].amount), Units(call[c].units)>>)
  \/ SendCaught(c, "Pool.exitSwapPoolAmountIn", "exitswapPoolAmountIn",
                <<toWei(call[c].amount), Units(call[c].units)>>, call[c].estGas + 1,
                BPool_acceptsOut(chain, "baseToken",
                                 BPool_calcSingleOutPoolIn(chain, call[c].amount)),
                BPool_exitswapPoolAmountIn(chain, call[c].amount))

----------------------------------------------------------------------------
(* Pool: quotes *)

\* BPool.getAmountOutExactIn(tokenIn, tokenOut, amountIn, fee).call()
BPool_getAmountOutExactIn(ch, tokenIn, tokenOut, amountIn) ==
  [tokenAmount |-> BPool_calcOutGivenIn(ch, tokenIn, tokenOut, amountIn),
   liquidityProviderSwapFeeAmount |-> BPool_fees(amountIn).lpFeeAmount,
   oceanFeeAmount |-> BPool_fees(amountIn).oceanFeeAmount,
   publishMarketSwapFeeAmount |-> BPool_fees(amountIn).publishMarketSwapFeeAmount,
   consumeMarketSwapFeeAmount |-> BPool_fees(amountIn).consumeMarketSwapFeeAmount]

\* BPool.getAmountInExactOut(tokenIn, tokenOut, amountOut, fee).call()
BPool_getAmountInExactOut(ch, tokenIn, tokenOut, amountOut) ==
  LET amountIn == BPool_calcInGivenOut(ch, tokenIn, tokenOut, amountOut)
  IN  [tokenAmount |-> amountIn,
       liquidityProviderSwapFeeAmount |-> BPool_fees(amountIn).lpFeeAmount,
       oceanFeeAmount |-> BPool_fees(amountIn).oceanFeeAmount,
       publishMarketSwapFeeAmount |-> BPool_fees(amountIn).publishMarketSwapFeeAmount,
       consumeMarketSwapFeeAmount |-> BPool_fees(amountIn).consumeMarketSwapFeeAmount]

\* the PoolPriceAndFees getAmountInExactOut builds from the contract's answer
getAmountInExactOut_amount(k, amountIn) ==
  [tokenAmount |-> unitsToAmount(k.tokenOut, amountIn.tokenAmount, k.outDec),
   liquidityProviderSwapFeeAmount |->
     unitsToAmount(k.tokenIn, amountIn.liquidityProviderSwapFeeAmount, k.inDec),
   oceanFeeAmount |-> unitsToAmount(k.tokenIn, amountIn.oceanFeeAmount, k.inDec),
   publishMarketSwapFeeAmount |->
     unitsToAmount(k.tokenIn, amountIn.publishMarketSwapFeeAmount, k.inDec),
   consumeMarketSwapFeeAmount |->
     unitsToAmount(k.tokenIn, amountIn.consumeMarketSwapFeeAmount, k.inDec)]

\* variant: the fee amounts converted with the precision of tokenOut
getAmountOutExactIn_amount_feesAsTokenOut(k, amountOut) ==
  [tokenAmount |-> unitsToAmount(k.tokenOut, amountOut.tokenAmount, k.outDec),
   liquidityProviderSwapFeeAmount |->
     unitsToAmount(k.tokenOut, amountOut.liquidityProviderSwapFeeAmount, k.outDec),
   oceanFeeAmount |-> unitsToAmount(k.tokenOut, amountOut.oceanFeeAmount, k.outDec),
   publishMarketSwapFeeAmount |->
     unitsToAmount(k.tokenOut, amountOut.publishMarketSwapFeeAmount, k.outDec),
   consumeMarketSwapFeeAmount |->
     unitsToAmount(k.tokenOut, amountOut.consumeMarketSwapFeeAmount, k.outDec)]

\* the PoolPriceAndFees getAmountOutExactIn builds from the contract's answer
getAmountOutExactIn_amount(k, amountOut) ==
  [tokenAmount |-> unitsToAmount(k.tokenOut, amountOut.tokenAmount, k.outDec),
   liquidityProviderSwapFeeAmount |->
     unitsToAmount(k.tokenIn, amountOut.liquidityProviderSwapFeeAmount, k.inDec),
   oceanFeeAmount |-> unitsToAmount(k.tokenIn, amountOut.oceanFeeAmount, k.inDec),
   publishMarketSwapFeeAmount |->
     unitsToAmount(k.tokenIn, amountOut.publishMarketSwapFeeAmount, k.inDec),
   consumeMarketSwapFeeAmount |->
     unitsToAmount(k.tokenIn, amountOut.consumeMarketSwapFeeAmount, k.inDec)]

\* variant: the quote is obtained with send() instead of call()
ReturnQuote_sends(k, raw, amount) ==
  [k EXCEPT !.pc = "done", !.outcome = "quote", !.calcCount = @ + 1,
            !.raw = raw, !.quote = amount, !.sendCount = @ + 1]

\* return amount, the quote built from the contract's answer
ReturnQuote(k, raw, amount) ==
  [k EXCEPT !.pc = "done", !.outcome = "quote", !.calcCount = @ + 1,
            !.raw = raw, !.quote = amount]

\* catch (e) { log }; return amount, still null: the calculation read failed
ReturnNullQuote(k) ==
  [k EXCEPT !.pc = "done", !.outcome = "null", !.calcCount = @ + 1]

Pool_getAmountInExactOut(c) ==
  \/ /\ Callable(c)
     /\ \E tokenIn \in Tokens, tokenAmountOut \in AmountChoices,
           swapMarketFee \in FeeChoices, tokenInDecimals \in DecimalsChoices,
           tokenOutDecimals \in DecimalsChoices, readOk \in BOOLEAN :
          LET tokenOut == OtherToken(tokenIn)
              k == [NewCall("Pool.getAmountInExactOut", "alice", FALSE)
                      EXCEPT !.tokenIn = tokenIn, !.tokenOut = tokenOut,
                             !.amount = tokenAmountOut, !.inDec = tokenInDecimals,
                             !.outDec = tokenOutDecimals, !.arg = swapMarketFee,
                             !.reserveReads = 1]
              maxSwap == getMaxSwapExactOut(chain, tokenOut, readOk)
          IN  call' = [call EXCEPT ![c] =
                         IF maxSwap.threw THEN Throw(k, "TypeError")
                         ELSE IF tokenAmountOut > maxSwap.value
                         THEN ThrowBound(k, maxSwap.value)
                         ELSE [k EXCEPT !.maxSwap = maxSwap.value,
                                        !.units = amountToUnits(tokenOut, tokenAmountOut,
                                                                tokenOutDecimals)]]
     /\ UNCHANGED chain
  \/ /\ At(c, "Pool.getAmountInExactOut", "built")
     /\ \E readOk \in BOOLEAN :
          LET k == call[c]
          IN  call' = [call EXCEPT ![c] =
                         IF readOk /\ BPool_acceptsOut(chain, k.tokenOut, k.units)
                         THEN LET amountIn == BPool_getAmountInExactOut(
                                                chain, k.tokenIn, k.tokenOut, k.units)
                              IN  ReturnQuote(k, amountIn,
                                              getAmountInExactOut_amount(k, amountIn))
                         ELSE ReturnNullQuote(k)]
     /\ UNCHANGED chain

\* Pool.getAmountOutExactIn, for requests of the amounts in `amounts`
getAmountOutExactIn_from(c, amounts) ==
  \/ /\ Callable(c)
     /\ \E tokenIn \in Tokens, tokenAmountIn \in amounts,
           swapMarketFee \in FeeChoices, tokenInDecimals \in DecimalsChoices,
           tokenOutDecimals \in DecimalsChoices, readOk \in BOOLEAN :
          LET tokenOut == OtherToken(tokenIn)
              k == [NewCall("Pool.getAmountOutExactIn", "alice", FALSE)
                      EXCEPT !.tokenIn = tokenIn, !.tokenOut = tokenOut,
                             !.amount = tokenAmountIn, !.inDec = tokenInDecimals,
                             !.outDec = tokenOutDecimals, !.arg = swapMarketFee,
                             !.reserveReads = 1]
              maxSwap == getMaxSwapExactIn(chain, tokenIn, readOk)
          IN  call' = [call EXCEPT ![c] =
                         IF maxSwap.threw THEN Throw(k, "TypeError")
                         ELSE IF tokenAmountIn > maxSwap.value
                         THEN ThrowBound(k, maxSwap.value)
                         ELSE [k EXCEPT !.maxSwap = maxSwap.value,
                                        !.units = amountToUnits(tokenIn, tokenAmountIn,
                                                                tokenInDecimals)]]
     /\ UNCHANGED chain
  \/ /\ At(c, "Pool.getAmountOutExactIn", "built")
     /\ \E readOk \in BOOLEAN :
          LET k == call[c]
          IN  call' = [call EXCEPT ![c] =
                         IF readOk /\ BPool_acceptsIn(chain, k.tokenIn, k.units)
                         THEN LET amountOut == BPool_getAmountOutExactIn(
                                                 chain, k.tokenIn, k.tokenOut, k.units)
                              IN  ReturnQuote(k, amountOut,
                                              getAmountOutExactIn_amount(k, amountOut))
                         ELSE ReturnNullQuote(k)]
     /\ UNCHANGED chain

Pool_getAmountOutExactIn(c) == getAmountOutExactIn_from(c, AmountChoices)

----------------------------------------------------------------------------
(* SideStaking (src/contracts/pools/SideStaking.ts) *)

SideStaking_getVesting(c) ==
  \/ /\ Callable(c)
     /\ \E account \in Accounts, estimateGas \in BOOLEAN :
          call' = [call EXCEPT ![c] = NewCall("SideStaking.getVesting", account, estimateGas)]
     /\ UNCHANGED chain
  \/ Estimate(c, "SideStaking.getVesting", "getVesting", <<Address("datatoken")>>)
  \/ SendUncaught(c, "SideStaking.getVesting", "getVesting", <<Address("datatoken")>>,
                  call[c].estGas + 1, TRUE, chain)

SideStaking_setPoolSwapFee(c) ==
  \/ /\ Callable(c)
     /\ \E account \in Accounts, swapFee \in FeeChoices, estimateGas \in BOOLEAN :
          call' = [call EXCEPT ![c] =
                     [NewCall("SideStaking.setPoolSwapFee", account, estimateGas)
                        EXCEPT !.arg = swapFee]]
     /\ UNCHANGED chain
  \/ Estimate(c, "SideStaking.setPoolSwapFee", "setPoolSwapFee",
              <<Address("datatoken"), Address("pool"), Number(call[c].arg)>>)
  \/ SendUncaught(c, "SideStaking.setPoolSwapFee", "setPoolSwapFee",
                  <<Address("datatoken"), Address("pool"), Number(call[c].arg)>>,
                  call[c].estGas + 1, TRUE, [chain EXCEPT !.swapFee = call[c].arg])

(* SideStaking, the variant in unnamed/part_001: no estimateGas flag, and a *)
(* failed send is logged and null returned                                  *)

\* utils estimateGas: the node's estimate, or the default when it throws
estimateGas(ok, g) == IF ok THEN g ELSE GASLIMIT_DEFAULT

\* const estGas = await estimateGas(account, method, ...args)
EstimateNoFlag(c, op, method, args) ==
  /\ At(c, op, "built")
  /\ \E ok \in BOOLEAN, g \in GasChoices :
       call' = [call EXCEPT ![c] = AfterEstimate(@, method, args, ~ok, estimateGas(ok, g))]
  /\ UNCHANGED chain

part_001_getVesting(c) ==
  \/ /\ Callable(c)
     /\ \E account \in Accounts :
          call' = [call EXCEPT ![c] = NewCall("part_001.getVesting", account, FALSE)]
     /\ UNCHANGED chain
  \/ EstimateNoFlag(c, "part_001.getVesting", "getVesting", <<Address("datatoken")>>)
  \/ SendCaught(c, "part_001.getVesting", "getVesting", <<Address("datatoken")>>,
                call[c].estGas + 1, TRUE, chain)

part_001_setPoolSwapFee(c) ==
  \/ /\ Callable(c)
     /\ \E account \in Accounts, swapFee \in FeeChoices :
          call' = [call EXCEPT ![c] =
                     [NewCall("part_001.setPoolSwapFee", account, FALSE)
                        EXCEPT !.arg = swapFee]]
     /\ UNCHANGED chain
  \/ EstimateNoFlag(c, "part_001.setPoolSwapFee", "setPoolSwapFee",
                    <<Address("datatoken"), Address("pool"), Number(call[c].arg)>>)
  \/ SendCaught(c, "part_001.setPoolSwapFee", "setPoolSwapFee",
                <<Address("datatoken"), Address("pool"), Number(call[c].arg)>>,
                call[c].estGas + 1, TRUE, [chain EXCEPT !.swapFee = call[c].arg])

----------------------------------------------------------------------------
(* NftFactory (unnamed/part_000) *)

ZERO_ADDRESS == "0x0"
TemplateAddresses == {ZERO_ADDRESS, "template"}
MAX_ORDERS == 50
OrderCounts == {1, MAX_ORDERS + 1}

\* NftFactory.estGasCreateNFT and its siblings: try { estimateGas } catch { default }
\* variant: the catch block leaves the estimate unset
estGasCreateNFT_noDefault(ok, g) == IF ok THEN g ELSE 0

estGasCreateNFT(ok, g) == IF ok THEN g ELSE GASLIMIT_DEFAULT
estGasAddNFTTemplate(ok, g) == IF ok THEN g ELSE GASLIMIT_DEFAULT
estGasDisableNFTTemplate(ok, g) == IF ok THEN g ELSE GASLIMIT_DEFAULT
estGasReactivateNFTTemplate(ok, g) == IF ok THEN g ELSE GASLIMIT_DEFAULT
estGasAddTokenTemplate(ok, g) == IF ok THEN g ELSE GASLIMIT_DEFAULT
estGasDisableTokenTemplate(ok, g) == IF ok THEN g ELSE GASLIMIT_DEFAULT
estGasReactivateTokenTemplate(ok, g) == IF ok THEN g ELSE GASLIMIT_DEFAULT
estGasStartMultipleTokenOrder(ok, g) == IF ok THEN g ELSE GASLIMIT_DEFAULT
estGasCreateNftWithErc20(ok, g) == IF ok THEN g ELSE GASLIMIT_DEFAULT
estGasCreateNftErc20WithPool(ok, g) == IF ok THEN g ELSE GASLIMIT_DEFAULT
estGasCreateNftErc20WithFixedRate(ok, g) == IF ok THEN g ELSE GASLIMIT_DEFAULT
estGasCreateNftErc20WithDispenser(ok, g) == IF ok THEN g ELSE GASLIMIT_DEFAULT

\* const estGas = await this.estGasX(address, ...)
FactoryEstimate(c, op, method, args, estGasX) ==
  /\ At(c, op, "built")
  /\ \E ok \in BOOLEAN, g \in GasChoices :
       call' = [call EXCEPT ![c] = AfterEstimate(@, method, args, ~ok, estGasX[ok, g])]
  /\ UNCHANGED chain

\* NftFactory.getOwner
getOwner == FactoryOwner

\* NftFactory.getCurrentNFTTemplateCount / getCurrentTokenTemplateCount
getCurrentNFTTemplateCount(ch) == Len(ch.nftTemplates)
getCurrentTokenTemplateCount(ch) == Len(ch.tokenTemplates)

\* variant: every existing template is reported active
getNFTTemplate_allActive(ch, index) ==
  IF index > getCurrentNFTTemplateCount(ch)
  THEN [error |-> "Template index doesnt exist", isActive |-> FALSE]
  ELSE IF index = 0
  THEN [error |-> "Template index cannot be ZERO", isActive |-> FALSE]
  ELSE [error |-> "none", isActive |-> TRUE]

\* NftFactory.getNFTTemplate: the template, or the error it throws
getNFTTemplate(ch, index) ==
  IF index > getCurrentNFTTemplateCount(ch)
  THEN [error |-> "Template index doesnt exist", isActive |-> FALSE]
  ELSE IF index = 0
  THEN [error |-> "Template index cannot be ZERO", isActive |-> FALSE]
  ELSE [error |-> "none", isActive |-> ch.nftTemplates[index]]

\* NftFactory.getTokenTemplate
getTokenTemplate(ch, index) ==
  [isActive |-> index \in 1..Len(ch.tokenTemplates) /\ ch.tokenTemplates[index]]

\* tokenAddress = trxReceipt.events.NFTCreated.returnValues[0]; return tokenAddress
ReturnAddress(k, tokenAddress) ==
  [k EXCEPT !.pc = "done", !.outcome = "address", !.ret = tokenAddress]

\* ERC721Factory.deployERC721Contract, confirmed: one more NFT
Factory_deployERC721Contract(ch) ==
  [ch EXCEPT !.nftCount = @ + 1, !.nftURIs = Append(@, "")]

\* ERC721Template.initialize, run by the factory on the new NFT: the token URI
\* of the create data is stored.
ERC721_initialize(ch, tokenURI) ==
  [ch EXCEPT !.nftURIs[ch.nftCount] = tokenURI]

\* trxReceipt.events.NFTCreated.returnValues: the new NFT's address comes first
NFTCreated_first(ch) == <<1>>

NFTCreated(ch) == <<ch.nftCount>>

\* NFT_TOKEN_URI of the tests
NFT_TOKEN_URI == "https://oceanprotocol.com/nft/"

createNFT_from(c, tokenURIs) ==
  \/ /\ Callable(c)
     /\ \E address \in Accounts, nftTemplateIndex \in 0..(Len(chain.nftTemplates) + 1),
           tokenURI \in tokenURIs :
          LET templateIndex == IF nftTemplateIndex = 0 THEN 1 ELSE nftTemplateIndex
              k == [NewCall("NftFactory.createNFT", address, FALSE)
                      EXCEPT !.amount = nftTemplateIndex, !.arg = templateIndex,
                             !.tokenURI = tokenURI]
              template == getNFTTemplate(chain, templateIndex)
          IN  call' = [call EXCEPT ![c] =
                         IF templateIndex > getCurrentNFTTemplateCount(chain)
                         THEN Throw(k, "Template index doesnt exist")
                         ELSE IF templateIndex = 0
                         THEN Throw(k, "Template index cannot be ZERO")
                         ELSE IF template.error # "none" THEN Throw(k, template.error)
                         ELSE IF template.isActive = FALSE
                         THEN Throw(k, "Template is not active")
                         ELSE k]
     /\ UNCHANGED chain
  \/ FactoryEstimate(c, "NftFactory.createNFT", "deployERC721Contract",
                     <<Number(call[c].arg)>>,
                     [ok \in BOOLEAN, g \in GasChoices |-> estGasCreateNFT(ok, g)])
  \/ /\ At(c, "NftFactory.createNFT", "estimated")
     /\ LET k == AfterSend(call[c], "deployERC721Contract", <<Number(call[c].arg)>>,
                           call[c].estGas + 1)
        IN  \/ /\ getNFTTemplate(chain, call[c].arg).isActive
               /\ chain.txCount < MaxTx
               /\ chain' = Confirm(ERC721_initialize(Factory_deployERC721Contract(chain),
                                                     call[c].tokenURI))
               /\ call' = [call EXCEPT ![c] = ReturnAddress(k, NFTCreated(chain')[1])]
            \/ /\ UNCHANGED chain
               /\ call' = [call EXCEPT ![c] = Throw(k, "Reverted")]

NftFactory_createNFT(c) == createNFT_from(c, {NFT_TOKEN_URI})

NftFactory_addNFTTemplate(c) ==
  \/ /\ Callable(c)
     /\ \E address \in Accounts, templateAddress \in TemplateAddresses :
          LET k == [NewCall("NftFactory.addNFTTemplate", address, FALSE)
                      EXCEPT !.addr = templateAddress]
          IN  call' = [call EXCEPT ![c] =
                         IF getOwner # address THEN Throw(k, "Caller is not Factory Owner")
                         ELSE IF templateAddress = ZERO_ADDRESS
                         THEN Throw(k, "Template cannot be ZERO address")
                         ELSE k]
     /\ UNCHANGED chain
  \/ FactoryEstimate(c, "NftFactory.addNFTTemplate", "add721TokenTemplate",
                     <<Address(call[c].addr)>>,
                     [ok \in BOOLEAN, g \in GasChoices |-> estGasAddNFTTemplate(ok, g)])
  \/ SendUncaught(c, "NftFactory.addNFTTemplate", "add721TokenTemplate",
                  <<Address(call[c].addr)>>, call[c].estGas + 1, TRUE,
                  [chain EXCEPT !.nftTemplates = Append(@, TRUE)])

NftFactory_disableNFTTemplate(c) ==
  \/ /\ Callable(c)
     /\ \E address \in Accounts, templateIndex \in 0..(Len(chain.nftTemplates) + 1) :
          LET k == [NewCall("NftFactory.disableNFTTemplate", address, FALSE)
                      EXCEPT !.arg = templateIndex]
          IN  call' = [call EXCEPT ![c] =
                         IF getOwner # address THEN Throw(k, "Caller is not Factory Owner")
                         ELSE IF templateIndex > getCurrentNFTTemplateCount(chain)
                         THEN Throw(k, "Template index doesnt exist")
                         ELSE IF templateIndex = 0
                         THEN Throw(k, "Template index cannot be ZERO")
                         ELSE k]
     /\ UNCHANGED chain
  \/ FactoryEstimate(c, "NftFactory.disableNFTTemplate", "disable721TokenTemplate",
                     <<Number(call[c].arg)>>,
                     [ok \in BOOLEAN, g \in GasChoices |-> estGasDisableNFTTemplate(ok, g)])
  \/ SendUncaught(c, "NftFactory.disableNFTTemplate", "disable721TokenTemplate",
                  <<Number(call[c].arg)>>, call[c].estGas + 1,
                  call[c].arg \in 1..Len(chain.nftTemplates),
                  [chain EXCEPT !.nftTemplates =
                     [i \in DOMAIN @ |-> IF i = call[c].arg THEN FALSE ELSE @[i]]])

NftFactory_reactivateNFTTemplate(c) ==
  \/ /\ Callable(c)
     /\ \E address \in Accounts, templateIndex \in 0..(Len(chain.nftTemplates) + 1) :
          LET k == [NewCall("NftFactory.reactivateNFTTemplate", address, FALSE)
                      EXCEPT !.arg = templateIndex]
          IN  call' = [call EXCEPT ![c] =
                         IF getOwner # address THEN Throw(k, "Caller is not Factory Owner")
                         ELSE IF templateIndex > getCurrentNFTTemplateCount(chain)
                         THEN Throw(k, "Template index doesnt exist")
                         ELSE IF templateIndex = 0
                         THEN Throw(k, "Template index cannot be ZERO")
                         ELSE k]
     /\ UNCHANGED chain
  \/ FactoryEstimate(c, "NftFactory.reactivateNFTTemplate", "reactivate721TokenTemplate",
                     <<Number(call[c].arg)>>,
                     [ok \in BOOLEAN, g \in GasChoices |-> estGasReactivateNFTTemplate(ok, g)])
  \/ SendUncaught(c, "NftFactory.reactivateNFTTemplate", "reactivate721TokenTemplate",
                  <<Number(call[c].arg)>>, call[c].estGas + 1,
                  call[c].arg \in 1..Len(chain.nftTemplates),
                  [chain EXCEPT !.nftTemplates =
                     [i \in DOMAIN @ |-> IF i = call[c].arg THEN TRUE ELSE @[i]]])

NftFactory_addTokenTemplate(c) ==
  \/ /\ Callable(c)
     /\ \E address \in Accounts, templateAddress \in TemplateAddresses :
          LET k == [NewCall("NftFactory.addTokenTemplate", address, FALSE)
                      EXCEPT !.addr = templateAddress]
          IN  call' = [call EXCEPT ![c] =
                         IF getOwner # address THEN Throw(k, "Caller is not Factory Owner")
                         ELSE IF templateAddress = ZERO_ADDRESS
                         THEN Throw(k, "Template cannot be address ZERO")
                         ELSE k]
     /\ UNCHANGED chain
  \/ FactoryEstimate(c, "NftFactory.addTokenTemplate", "addTokenTemplate",
                     <<Address(call[c].addr)>>,
                     [ok \in BOOLEAN, g \in GasChoices |-> estGasAddTokenTemplate(ok, g)])
  \/ SendUncaught(c, "NftFactory.addTokenTemplate", "addTokenTemplate",
                  <<Address(call[c].addr)>>, call[c].estGas + 1, TRUE,
                  [chain EXCEPT !.tokenTemplates = Append(@, TRUE)])

NftFactory_disableTokenTemplate(c) ==
  \/ /\ Callable(c)
     /\ \E address \in Accounts, templateIndex \in 0..(Len(chain.tokenTemplates) + 1) :
          LET k == [NewCall("NftFactory.disableTokenTemplate", address, FALSE)
                      EXCEPT !.arg = templateIndex]
          IN  call' = [call EXCEPT ![c] =
                         IF getOwner # address THEN Throw(k, "Caller is not Factory Owner")
                         ELSE IF templateIndex > getCurrentTokenTemplateCount(chain)
                         THEN Throw(k, "Template index doesnt exist")
                         ELSE IF templateIndex = 0
                         THEN Throw(k, "Template index cannot be ZERO")
                         ELSE IF getTokenTemplate(chain, templateIndex).isActive = FALSE
                         THEN Throw(k, "Template is already disabled")
                         ELSE k]
     /\ UNCHANGED chain
  \/ FactoryEstimate(c, "NftFactory.disableTokenTemplate", "disableTokenTemplate",
                     <<Number(call[c].arg)>>,
                     [ok \in BOOLEAN, g \in GasChoices |-> estGasDisableTokenTemplate(ok, g)])
  \/ SendUncaught(c, "NftFactory.disableTokenTemplate", "disableTokenTemplate",
                  <<Number(call[c].arg)>>, call[c].estGas + 1,
                  call[c].arg \in 1..Len(chain.tokenTemplates),
                  [chain EXCEPT !.tokenTemplates =
                     [i \in DOMAIN @ |-> IF i = call[c].arg THEN FALSE ELSE @[i]]])

NftFactory_reactivateTokenTemplate(c) ==
  \/ /\ Callable(c)
     /\ \E address \in Accounts, templateIndex \in 0..(Len(chain.tokenTemplates) + 1) :
          LET k == [NewCall("NftFactory.reactivateTokenTemplate", address, FALSE)
                      EXCEPT !.arg = templateIndex]
          IN  call' = [call EXCEPT ![c] =
                         IF getOwner # address THEN Throw(k, "Caller is not Factory Owner")
                         ELSE IF templateIndex > getCurrentTokenTemplateCount(chain)
                         THEN Throw(k, "Template index doesnt exist")
                         ELSE IF templateIndex = 0
                         THEN Throw(k, "Template index cannot be ZERO")
                         ELSE IF getTokenTemplate(chain, templateIndex).isActive = TRUE
                         THEN Throw(k, "Template is already active")
                         ELSE k]
     /\ UNCHANGED chain
  \/ FactoryEstimate(c, "NftFactory.reactivateTokenTemplate", "reactivateTokenTemplate",
                     <<Number(call[c].arg)>>,
                     [ok \in BOOLEAN, g \in GasChoices |-> estGasReactivateTokenTemplate(ok, g)])
  \/ SendUncaught(c, "NftFactory.reactivateTokenTemplate", "reactivateTokenTemplate",
                  <<Number(call[c].arg)>>, call[c].estGas + 1,
                  call[c].arg \in 1..Len(chain.tokenTemplates),
                  [chain EXCEPT !.tokenTemplates =
                     [i \in DOMAIN @ |-> IF i = call[c].arg THEN TRUE ELSE @[i]]])

NftFactory_startMultipleTokenOrder(c) ==
  \/ /\ Callable(c)
     /\ \E address \in Accounts, orders \in OrderCounts :
          LET k == [NewCall("NftFactory.startMultipleTokenOrder", address, FALSE)
                      EXCEPT !.arg = orders]
          IN  call' = [call EXCEPT ![c] =
                         IF orders > MAX_ORDERS THEN Throw(k, "Too many orders") ELSE k]
     /\ UNCHANGED chain
  \/ FactoryEstimate(c, "NftFactory.startMultipleTokenOrder", "startMultipleTokenOrder",
                     <<Number(call[c].arg)>>,
                     [ok \in BOOLEAN, g \in GasChoices |-> estGasStartMultipleTokenOrder(ok, g)])
  \/ SendUncaught(c, "NftFactory.startMultipleTokenOrder", "startMultipleTokenOrder",
                  <<Number(call[c].arg)>>, call[c].estGas + 1, TRUE, chain)

NftFactory_createNftWithErc20(c) ==
  \/ /\ Callable(c)
     /\ \E address \in Accounts :
          call' = [call EXCEPT ![c] = NewCall("NftFactory.createNftWithErc20", address, FALSE)]
     /\ UNCHANGED chain
  \/ FactoryEstimate(c, "NftFactory.createNftWithErc20", "createNftWithErc20",
                     <<>>,
                     [ok \in BOOLEAN, g \in GasChoices |-> estGasCreateNftWithErc20(ok, g)])
  \/ SendUncaught(c, "NftFactory.createNftWithErc20", "createNftWithErc20",
                  <<>>, call[c].estGas + 1, TRUE, Factory_deployERC721Contract(chain))

NftFactory_createNftErc20WithPool(c) ==
  \/ /\ Callable(c)
     /\ \E address \in Accounts :
          call' = [call EXCEPT ![c] =
                     NewCall("NftFactory.createNftErc20WithPool", address, FALSE)]
     /\ UNCHANGED chain
  \/ FactoryEstimate(c, "NftFactory.createNftErc20WithPool", "createNftWithErc20WithPool",
                     <<>>,
                     [ok \in BOOLEAN, g \in GasChoices |-> estGasCreateNftErc20WithPool(ok, g)])
  \/ SendUncaught(c, "NftFactory.createNftErc20WithPool", "createNftWithErc20WithPool",
                  <<>>, call[c].estGas + 1, TRUE, Factory_deployERC721Contract(chain))

NftFactory_createNftErc20WithFixedRate(c) ==
  \/ /\ Callable(c)
     /\ \E address \in Accounts :
          call' = [call EXCEPT ![c] =
                     NewCall("NftFactory.createNftErc20WithFixedRate", address, FALSE)]
     /\ UNCHANGED chain
  \/ FactoryEstimate(c, "NftFactory.createNftErc20WithFixedRate",
                     "createNftWithErc20WithFixedRate",
                     <<>>,
                     [ok \in BOOLEAN, g \in GasChoices |-> estGasCreateNftErc20WithFixedRate(ok, g)])
  \/ SendUncaught(c, "NftFactory.createNftErc20WithFixedRate",
                  "createNftWithErc20WithFixedRate",
                  <<>>, call[c].estGas + 1, TRUE, Factory_deployERC721Contract(chain))

NftFactory_createNftErc20WithDispenser(c) ==
  \/ /\ Callable(c)
     /\ \E address \in Accounts :
          call' = [call EXCEPT ![c] =
                     NewCall("NftFactory.createNftErc20WithDispenser", address, FALSE)]
     /\ UNCHANGED chain
  \/ FactoryEstimate(c, "NftFactory.createNftErc20WithDispenser",
                     "createNftWithErc20WithDispenser",
                     <<>>,
                     [ok \in BOOLEAN, g \in GasChoices |-> estGasCreateNftErc20WithDispenser(ok, g)])
  \/ SendUncaught(c, "NftFactory.createNftErc20WithDispenser",
                  "createNftWithErc20WithDispenser",
                  <<>>, call[c].estGas + 1, TRUE, Factory_deployERC721Contract(chain))

----------------------------------------------------------------------------
(* The system: one caller that awaits each call before the next *)

Calls == {1}

Init ==
  /\ chain = InitChain
  /\ call = [c \in Calls |-> NoCall]

\* the caller takes the settled promise's value or error; it may call again
Settle(c) ==
  /\ call[c].pc = "done"
  /\ call' = [call EXCEPT ![c] = NoCall]
  /\ UNCHANGED chain

Next ==
  \E c \in DOMAIN call :
    \/ Settle(c)
    \/ Pool_setSwapFee(c)
    \/ Pool_collectOPC(c)
    \/ Pool_collectMarketFee(c)
    \/ Pool_updatePublishMarketFee(c)
    \/ Pool_swapExactAmountIn(c)
    \/ Pool_swapExactAmountOut(c)
    \/ Pool_joinswapExternAmountIn(c)
    \/ Pool_exitSwapPoolAmountIn(c)
    \/ Pool_getAmountInExactOut(c)
    \/ Pool_getAmountOutExactIn(c)
    \/ SideStaking_getVesting(c)
    \/ SideStaking_setPoolSwapFee(c)
    \/ part_001_getVesting(c)
    \/ part_001_setPoolSwapFee(c)
    \/ NftFactory_createNFT(c)
    \/ NftFactory_addNFTTemplate(c)
    \/ NftFactory_disableNFTTemplate(c)
    \/ NftFactory_reactivateNFTTemplate(c)
    \/ NftFactory_addTokenTemplate(c)
    \/ NftFactory_disableTokenTemplate(c)
    \/ NftFactory_reactivateTokenTemplate(c)
    \/ NftFactory_startMultipleTokenOrder(c)
    \/ NftFactory_createNftWithErc20(c)
    \/ NftFactory_createNftErc20WithPool(c)
    \/ NftFactory_createNftErc20WithFixedRate(c)
    \/ NftFactory_createNftErc20WithDispenser(c)

Spec == Init /\ [][Next]_vars

----------------------------------------------------------------------------
(* Two callers that only ask for quotes, against a pool nobody trades on *)

QuoteCalls == {1, 2}

InitQuotes ==
  /\ \E r \in (InitReserve - 1)..InitReserve :
       chain = [InitChain EXCEPT !.reserve = [t \in Tokens |-> r * Pow10(decimals(t))]]
  /\ call = [c \in QuoteCalls |-> NoCall]

NextQuotes ==
  \E c \in DOMAIN call :
    \/ Settle(c)
    \/ Pool_getAmountInExactOut(c)
    \/ Pool_getAmountOutExactIn(c)

SpecQuotes == InitQuotes /\ [][NextQuotes]_vars

----------------------------------------------------------------------------
(* Properties *)

PoolMutatingOps ==
  {"Pool.setSwapFee", "Pool.collectOPC", "Pool.collectMarketFee",
   "Pool.updatePublishMarketFee", "Pool.swapExactAmountIn", "Pool.swapExactAmountOut",
   "Pool.joinswapExternAmountIn", "Pool.exitSwapPoolAmountIn"}
SideStakingOps ==
  {"SideStaking.getVesting", "SideStaking.setPoolSwapFee",
   "part_001.getVesting", "part_001.setPoolSwapFee"}
FactoryOps ==
  {"NftFactory.createNFT", "NftFactory.addNFTTemplate", "NftFactory.disableNFTTemplate",
   "NftFactory.reactivateNFTTemplate", "NftFactory.addTokenTemplate",
   "NftFactory.disableTokenTemplate", "NftFactory.reactivateTokenTemplate",
   "NftFactory.startMultipleTokenOrder", "NftFactory.createNftWithErc20",
   "NftFactory.createNftErc20WithPool", "NftFactory.createNftErc20WithFixedRate",
   "NftFactory.createNftErc20WithDispenser"}
MutatingOps == PoolMutatingOps \cup SideStakingOps \cup FactoryOps
QuoteOps == {"Pool.getAmountInExactOut", "Pool.getAmountOutExactIn"}

\* the reserve of a token as the call found it, in human units
ReserveFound(k, token) == k.chain0.reserve[token] * Pow10(Scale - decimals(token))
\* the precision a conversion of `token` has to use, given the caller's override
Precision(token, override) == IF override = 0 THEN decimals(token) ELSE override
\* the call's reserve read failed
ReadFailed(k) == k.outcome = "error" /\ k.error = "TypeError"

\* C1: a swapExactAmountIn call whose tokenAmountIn is strictly greater than the
\* bound derived from the reserve it read fails with the amount-exceeds-bound
\* error, and such a call never estimates gas and never sends.
C1_SwapAboveBoundNeverSubmitted ==
  \A c \in DOMAIN call :
    LET k == call[c]
    IN  (k.op = "Pool.swapExactAmountIn"
         /\ k.amount > calcMaxExactIn(ReserveFound(k, k.tokenIn)))
        => /\ k.pc = "done"
           /\ k.outcome = "error"
           /\ ~ReadFailed(k) => k.error = "AmountExceedsBound"
           /\ k.estCount = 0
           /\ k.sendCount = 0

C1_Witness ==
  \E c \in DOMAIN call :
    /\ call[c].op = "Pool.swapExactAmountIn"
    /\ call[c].amount > calcMaxExactIn(ReserveFound(call[c], call[c].tokenIn))
    /\ call[c].pc = "done"
    /\ call[c].error = "AmountExceedsBound"

C3_EstimationFailureFallsBack ==
  \A c \in DOMAIN call :
    LET k == call[c]
    IN  (k.op \in MutatingOps /\ k.estFailed)
        => /\ k.estGas = GASLIMIT_DEFAULT
           /\ k.pc \in {"estimated", "done"}
           /\ (k.pc = "done" /\ ~k.estimateOnly) =>
                /\ k.sendCount = 1
                /\ k.sendGas >= GASLIMIT_DEFAULT
                /\ k.op \in FactoryOps => k.sendGas = GASLIMIT_DEFAULT + 1

C3_Witness ==
  \E c \in DOMAIN call :
    /\ call[c].op = "NftFactory.createNFT"
    /\ call[c].estFailed
    /\ call[c].pc = "done"
    /\ call[c].outcome = "address"
    /\ call[c].sendGas = GASLIMIT_DEFAULT + 1

\* C4: in every mutating operation a send is preceded, in the same call, by a
\* completed gas estimation of the same contract method.
C4_SendAfterEstimation ==
  \A c \in DOMAIN call :
    LET k == call[c]
    IN  (k.op \in MutatingOps /\ k.sendCount > 0)
        => /\ k.estCount > 0
           /\ k.estMethod = k.sendMethod

C4_Witness ==
  \E c \in DOMAIN call :
    /\ call[c].op = "Pool.collectOPC"
    /\ call[c].sendCount = 1
    /\ call[c].estCount = 1
    /\ call[c].outcome = "receipt"

\* C5 (as claimed): when the send of a mutating operation fails, the call ends
\* with an error; it never completes normally with null in place of a receipt.
C5_RevertSurfacesError ==
  \A c \in DOMAIN call :
    LET k == call[c]
    IN  (k.op \in MutatingOps /\ k.pc = "done") => k.outcome # "null"

\* C6: within one call send is invoked at most once, also when it fails.
C6_SendAtMostOnce ==
  \A c \in DOMAIN call : call[c].sendCount <= 1

C6_Witness ==
  \E c \in DOMAIN call :
    /\ call[c].op = "Pool.swapExactAmountOut"
    /\ call[c].pc = "done"
    /\ call[c].outcome = "null"
    /\ call[c].sendCount = 1

\* C7 (as claimed): every mutating operation submits with a gas limit of the
\* estimate obtained in the same call plus one.
C7_GasIsEstimatePlusOne ==
  \A c \in DOMAIN call :
    LET k == call[c]
    IN  (k.op \in MutatingOps /\ k.sendCount > 0) => k.sendGas = k.estGas + 1

\* C8: getAmountOutExactIn rejects a tokenAmountIn above the swap-in bound of
\* tokenIn's reserve, getAmountInExactOut a tokenAmountOut above the swap-out
\* bound of tokenOut's reserve; the rejection comes before the pool's
\* calculation is called, and the error carries the bound.
C8_QuoteRejectsAboveBound ==
  \A c \in DOMAIN call :
    LET k == call[c]
        boundIn == calcMaxExactIn(ReserveFound(k, k.tokenIn))
        boundOut == calcMaxExactOut(ReserveFound(k, k.tokenOut))
    IN  /\ (k.op = "Pool.getAmountOutExactIn" /\ k.amount > boundIn /\ ~ReadFailed(k))
           => /\ k.pc = "done" /\ k.outcome = "error"
              /\ k.error = "AmountExceedsBound"
              /\ k.errBound = boundIn
              /\ k.calcCount = 0
        /\ (k.op = "Pool.getAmountInExactOut" /\ k.amount > boundOut /\ ~ReadFailed(k))
           => /\ k.pc = "done" /\ k.outcome = "error"
              /\ k.error = "AmountExceedsBound"
              /\ k.errBound = boundOut
              /\ k.calcCount = 0

C8_Witness ==
  \E c \in DOMAIN call :
    /\ call[c].op = "Pool.getAmountInExactOut"
    /\ call[c].amount > calcMaxExactOut(ReserveFound(call[c], call[c].tokenOut))
    /\ call[c].error = "AmountExceedsBound"
    /\ call[c].errBound > 0
    /\ call[c].calcCount = 0

\* the arguments of a quote
QuoteInputs(k) == <<k.op, k.tokenIn, k.amount, k.inDec, k.outDec, k.arg>>
\* what a quote call gave its caller
QuoteAnswer(k) == <<k.outcome, k.error, k.errBound, k.quote>>
\* a read of the quote failed (the reserve read, or the calculation read)
QuoteReadFailed(k) == ReadFailed(k) \/ k.outcome = "null"

\* C9: the quote operations only read: on every path they estimate nothing,
\* send nothing and leave the contract state as they found it, and two quotes
\* with the same arguments against unchanged reserves whose reads succeed give
\* the same answer.
C9_QuotesOnlyRead ==
  /\ \A c \in DOMAIN call :
       call[c].op \in QuoteOps
         => /\ call[c].sendCount = 0
            /\ call[c].estCount = 0
            /\ chain = call[c].chain0
  /\ \A c1, c2 \in DOMAIN call :
       (/\ call[c1].op \in QuoteOps
        /\ call[c1].pc = "done" /\ call[c2].pc = "done"
        /\ QuoteInputs(call[c1]) = QuoteInputs(call[c2])
        /\ call[c1].chain0.reserve = call[c2].chain0.reserve
        /\ ~QuoteReadFailed(call[c1]) /\ ~QuoteReadFailed(call[c2]))
       => QuoteAnswer(call[c1]) = QuoteAnswer(call[c2])

C9_Witness ==
  \E c1, c2 \in DOMAIN call :
    /\ c1 # c2
    /\ call[c1].op = "Pool.getAmountOutExactIn"
    /\ call[c1].outcome = "quote" /\ call[c2].outcome = "quote"
    /\ QuoteInputs(call[c1]) = QuoteInputs(call[c2])
    /\ call[c1].quote.tokenAmount > 0

\* C10: in both quotes each of the four fee amounts is converted to human units
\* with the precision of the input-side token, and the gross amount with the
\* precision of the output-side token.
C10_QuotePrecisions ==
  \A c \in DOMAIN call :
    LET k == call[c]
        inSide == Pow10(Scale - Precision(k.tokenIn, k.inDec))
        outSide == Pow10(Scale - Precision(k.tokenOut, k.outDec))
    IN  (k.op \in QuoteOps /\ k.outcome = "quote")
        => /\ k.quote.liquidityProviderSwapFeeAmount
                = k.raw.liquidityProviderSwapFeeAmount * inSide
           /\ k.quote.oceanFeeAmount = k.raw.oceanFeeAmount * inSide
           /\ k.quote.publishMarketSwapFeeAmount = k.raw.publishMarketSwapFeeAmount * inSide
           /\ k.quote.consumeMarketSwapFeeAmount = k.raw.consumeMarketSwapFeeAmount * inSide
           /\ k.quote.tokenAmount = k.raw.tokenAmount * outSide

C10_Witness ==
  \E c \in DOMAIN call :
    /\ call[c].op = "Pool.getAmountInExactOut"
    /\ call[c].outcome = "quote"
    /\ Precision(call[c].tokenIn, call[c].inDec) # Precision(call[c].tokenOut, call[c].outDec)
    /\ call[c].raw.liquidityProviderSwapFeeAmount > 0
    /\ call[c].raw.consumeMarketSwapFeeAmount > 0
    /\ call[c].raw.tokenAmount > 0

\* C11 (as claimed): the tokenAmount returned by getAmountInExactOut, an amount
\* of tokenIn, is converted with the precision of tokenIn (tokenInDecimals when
\* supplied), also when the two tokens differ in precision.
C11_AmountInUsesTokenInPrecision ==
  \A c \in DOMAIN call :
    LET k == call[c]
    IN  (k.op = "Pool.getAmountInExactOut" /\ k.outcome = "quote")
        => k.quote.tokenAmount
             = k.raw.tokenAmount * Pow10(Scale - Precision(k.tokenIn, k.inDec))

----------------------------------------------------------------------------
(* Pool: the read-only accessors, called on their own *)

\* return x, the value read from the contract
ReturnValue(k, value) == [k EXCEPT !.pc = "done", !.outcome = "value", !.ret = value]

\* return address, the address read from the contract
ReturnAddressRead(k, address) ==
  [k EXCEPT !.pc = "done", !.outcome = "value", !.addr = address]

\* try { return ... } catch (e) { log }: the function falls off its end
ReturnUndefined(k) == [k EXCEPT !.pc = "done", !.outcome = "undefined"]

\* BPool.getCurrentOPCFees().call(): nothing collected yet
BPool_getCurrentOPCFees(ch) == 0

\* Pool.getController: let address = null; try { read } catch { log }; return address
Pool_getController(c) ==
  /\ Callable(c)
  /\ \E readOk \in BOOLEAN :
       LET k == NewCall("Pool.getController", "alice", FALSE)
       IN  call' = [call EXCEPT ![c] =
                      IF readOk THEN ReturnAddressRead(k, chain.controller)
                      ELSE ReturnNull(k)]
  /\ UNCHANGED chain

\* Pool.getMarketFeeCollector
Pool_getMarketFeeCollector(c) ==
  /\ Callable(c)
  /\ \E readOk \in BOOLEAN :
       LET k == NewCall("Pool.getMarketFeeCollector", "alice", FALSE)
           address == getMarketFeeCollector(chain, readOk)
       IN  call' = [call EXCEPT ![c] =
                      IF address = "null" THEN ReturnNull(k)
                      ELSE ReturnAddressRead(k, address)]
  /\ UNCHANGED chain

\* Pool.getNumTokens
Pool_getNumTokens(c) ==
  /\ Callable(c)
  /\ \E readOk \in BOOLEAN :
       LET k == NewCall("Pool.getNumTokens", "alice", FALSE)
       IN  call' = [call EXCEPT ![c] =
                      IF readOk THEN ReturnValue(k, Cardinality(Tokens))
                      ELSE ReturnNull(k)]
  /\ UNCHANGED chain

\* Pool.getReserve: return amount.toString(), a TypeError when amount is null
Pool_getReserve(c) ==
  /\ Callable(c)
  /\ \E token \in Tokens, tokenDecimals \in DecimalsChoices, readOk \in BOOLEAN :
       LET k == [NewCall("Pool.getReserve", "alice", FALSE)
                   EXCEPT !.tokenIn = token, !.inDec = tokenDecimals]
           amount == getReserve(chain, token, tokenDecimals, readOk)
       IN  call' = [call EXCEPT ![c] =
                      IF amount.threw THEN Throw(k, "TypeError")
                      ELSE ReturnValue(k, amount.value)]
  /\ UNCHANGED chain

\* Pool.getCurrentMarketFees: try { return fees } catch { log }
Pool_getCurrentMarketFees(c) ==
  /\ Callable(c)
  /\ \E readOk \in BOOLEAN :
       LET k == NewCall("Pool.getCurrentMarketFees", "alice", FALSE)
       IN  call' = [call EXCEPT ![c] =
                      IF readOk THEN ReturnValue(k, BPool_getCurrentOPCFees(chain))
                      ELSE ReturnUndefined(k)]
  /\ UNCHANGED chain

\* pools of any reserve, the empty pool included, and of either fee collector
InitReads ==
  /\ \E r \in 0..InitReserve, a \in Accounts :
       chain = [InitChain EXCEPT !.reserve = [t \in Tokens |-> r * Pow10(decimals(t))],
                                 !.collector = a]
  /\ call = [c \in Calls |-> NoCall]

NextReads ==
  \E c \in DOMAIN call :
    \/ Settle(c)
    \/ Pool_getController(c)
    \/ Pool_getMarketFeeCollector(c)
    \/ Pool_getNumTokens(c)
    \/ Pool_getReserve(c)
    \/ Pool_getCurrentMarketFees(c)

SpecReads == InitReads /\ [][NextReads]_vars

AccessorOps ==
  {"Pool.getController", "Pool.getMarketFeeCollector", "Pool.getNumTokens",
   "Pool.getReserve", "Pool.getCurrentMarketFees"}

\* C12 (as claimed): a read-only accessor of Pool either returns the value read
\* from the contract or fails with an error that carries the cause of the
\* failed read; it never hands null or undefined to its caller.
C12_AccessorFailsWithCause ==
  \A c \in DOMAIN call :
    LET k == call[c]
    IN  (k.op \in AccessorOps /\ k.pc = "done")
        => \/ k.outcome = "value"
           \/ k.outcome = "error" /\ k.error = "QueryFailed"

----------------------------------------------------------------------------
(* Bounds *)

BoundedOps ==
  {"Pool.swapExactAmountIn", "Pool.swapExactAmountOut", "Pool.joinswapExternAmountIn",
   "Pool.exitSwapPoolAmountIn", "Pool.getAmountInExactOut", "Pool.getAmountOutExactIn"}

\* the bound the operation of call k has to respect, from the reserve k found
BoundFound(k) ==
  CASE k.op \in {"Pool.swapExactAmountIn", "Pool.getAmountOutExactIn",
                 "Pool.joinswapExternAmountIn"}
         -> calcMaxExactIn(ReserveFound(k, k.tokenIn))
    [] k.op \in {"Pool.swapExactAmountOut", "Pool.getAmountInExactOut"}
         -> calcMaxExactOut(ReserveFound(k, k.tokenOut))
    [] OTHER -> calcMaxExactIn(ReserveFound(k, k.tokenOut))

\* C13: every call of a swap, liquidity or quote operation reads the reserve
\* itself, once, and the bound it checks (the one it passed, or the one its
\* rejection reports) is the bound of the reserve as that call found it, also
\* after a confirmed trade has changed the reserve.
C13_BoundFromOwnRead ==
  \A c \in DOMAIN call :
    LET k == call[c]
    IN  (k.op \in BoundedOps /\ k.pc # "idle")
        => /\ k.reserveReads = 1
           /\ (~ReadFailed(k) /\ k.error # "DecimalError")
                => \/ /\ k.error = "AmountExceedsBound"
                      /\ k.errBound = BoundFound(k)
                   \/ /\ k.error # "AmountExceedsBound"
                      /\ k.maxSwap = BoundFound(k)

\* a call made after a trade, rejected for an amount the first reserve allowed
C13_Witness ==
  \E c \in DOMAIN call :
    LET k == call[c]
    IN  /\ k.op \in BoundedOps
        /\ k.chain0.reserve # InitChain.reserve
        /\ k.chain0.txCount > 0
        /\ k.error = "AmountExceedsBound"
        /\ k.errBound = BoundFound(k)
        /\ k.amount <= BoundFound([k EXCEPT !.chain0 = InitChain])

----------------------------------------------------------------------------
(* The swap-in bound as a function of the reserve: two readers, and a pool
   whose reserves move under the trades of others *)

\* the reserves a pool can hold, in token units
ReserveChoices == 0..InitReserve

\* Pool.getMaxSwapExactIn, called for one token
Pool_getMaxSwapExactIn(c) ==
  /\ Callable(c)
  /\ \E token \in Tokens, readOk \in BOOLEAN :
       LET k == [NewCall("Pool.getMaxSwapExactIn", "alice", FALSE)
                   EXCEPT !.tokenIn = token, !.reserveReads = 1]
           maxSwap == getMaxSwapExactIn(chain, token, readOk)
       IN  call' = [call EXCEPT ![c] =
                      IF maxSwap.threw THEN Throw(k, "TypeError")
                      ELSE ReturnValue(k, maxSwap.value)]
  /\ UNCHANGED chain

\* a confirmed trade of some other party leaves a token with another reserve
BPool_otherTrade ==
  /\ \E token \in Tokens, r \in ReserveChoices :
       /\ r # chain.reserve[token]
       /\ chain' = [chain EXCEPT !.reserve = [@ EXCEPT ![token] = r]]
  /\ UNCHANGED call

InitBounds ==
  /\ \E r \in ReserveChoices :
       chain = [InitChain EXCEPT !.reserve = [t \in Tokens |-> r]]
  /\ call = [c \in QuoteCalls |-> NoCall]

NextBounds ==
  \/ BPool_otherTrade
  \/ \E c \in DOMAIN call :
       \/ Settle(c)
       \/ Pool_getMaxSwapExactIn(c)

SpecBounds == InitBounds /\ [][NextBounds]_vars

\* C14: the swap-in bound of a token is never negative, and of two readings of
\* the same token the one taken at the strictly smaller reserve is strictly
\* smaller.
C14_BoundMonotonic ==
  /\ \A c \in DOMAIN call :
       (call[c].op = "Pool.getMaxSwapExactIn" /\ call[c].outcome = "value")
         => call[c].ret >= 0
  /\ \A c1, c2 \in DOMAIN call :
       (/\ call[c1].op = "Pool.getMaxSwapExactIn" /\ call[c1].outcome = "value"
        /\ call[c2].op = "Pool.getMaxSwapExactIn" /\ call[c2].outcome = "value"
        /\ call[c1].tokenIn = call[c2].tokenIn
        /\ call[c1].chain0.reserve[call[c1].tokenIn]
             < call[c2].chain0.reserve[call[c2].tokenIn])
       => call[c1].ret < call[c2].ret

\* two readings of the datatoken bound, one unit of reserve apart
C14_Witness ==
  \E c1, c2 \in DOMAIN call :
    /\ call[c1].op = "Pool.getMaxSwapExactIn" /\ call[c1].outcome = "value"
    /\ call[c2].op = "Pool.getMaxSwapExactIn" /\ call[c2].outcome = "value"
    /\ call[c1].tokenIn = "datatoken" /\ call[c2].tokenIn = "datatoken"
    /\ call[c1].chain0.reserve["datatoken"] + 1 = call[c2].chain0.reserve["datatoken"]
    /\ call[c1].ret < call[c2].ret

----------------------------------------------------------------------------
(* The quote scenario of the specification: a pool holding 1000 of each token,
   asked for the full reserve and for 1 *)

ScenarioReserve == 1000
ScenarioAmounts == {Human(1), Human(ScenarioReserve)}

InitScenario ==
  /\ chain = [InitChain EXCEPT
                !.reserve = [t \in Tokens |-> ScenarioReserve * Pow10(decimals(t))]]
  /\ call = [c \in QuoteCalls |-> NoCall]

NextScenario ==
  \E c \in DOMAIN call :
    \/ Settle(c)
    \/ getAmountOutExactIn_from(c, ScenarioAmounts)

SpecScenario == InitScenario /\ [][NextScenario]_vars

\* C15: against a base-token reserve of 1000, getAmountOutExactIn of the full
\* reserve is rejected as exceeding the bound, and getAmountOutExactIn of 1
\* passes the bound check and, its calculation read answered, returns a quote
\* whose four fee amounts are all non-negative.
C15_ReserveScenario ==
  \A c \in DOMAIN call :
    LET k == call[c]
    IN  (/\ k.op = "Pool.getAmountOutExactIn"
         /\ k.tokenIn = "baseToken"
         /\ ReserveFound(k, "baseToken") = Human(ScenarioReserve)
         /\ ~ReadFailed(k))
        => /\ k.amount = Human(ScenarioReserve)
                => k.pc = "done" /\ k.error = "AmountExceedsBound" /\ k.calcCount = 0
           /\ k.amount = Human(1)
                => /\ k.error = "none"
                   /\ k.pc = "done" => k.outcome \in {"quote", "null"}
                   /\ k.outcome = "quote"
                        => /\ k.quote.liquidityProviderSwapFeeAmount >= 0
                           /\ k.quote.oceanFeeAmount >= 0
                           /\ k.quote.publishMarketSwapFeeAmount >= 0
                           /\ k.quote.consumeMarketSwapFeeAmount >= 0

\* one caller turned away with the full reserve, the other quoted for 1
C15_Witness ==
  \E c1, c2 \in DOMAIN call :
    /\ call[c1].op = "Pool.getAmountOutExactIn" /\ call[c1].tokenIn = "baseToken"
    /\ call[c1].amount = Human(ScenarioReserve)
    /\ call[c1].error = "AmountExceedsBound"
    /\ call[c2].op = "Pool.getAmountOutExactIn" /\ call[c2].tokenIn = "baseToken"
    /\ call[c2].amount = Human(1)
    /\ call[c2].outcome = "quote"
    /\ call[c2].quote.consumeMarketSwapFeeAmount > 0

----------------------------------------------------------------------------
(* Unit conversion and the precision it uses *)

\* let decimalsTokenIn = 18
DEFAULT_DECIMALS == 18

\* the precision a conversion uses: the override, else the answer of the
\* token's decimals(), else the default
ResolvePrecision(token, tokenDecimals, queryOk) ==
  IF tokenDecimals # 0 THEN tokenDecimals
  ELSE IF queryOk THEN decimals(token)
  ELSE DEFAULT_DECIMALS

\* amount * 10^precision, held as m * 10^e so that 18 digits fit
amountToUnitsAt(amount, precision) ==
  [m |-> amount \div Pow10(Scale - precision),
   e |-> IF precision > Scale THEN precision - Scale ELSE 0]

\* m * 10^e / 10^precision, as an amount m' * 10^e'
unitsToAmountAt(m, e, precision) ==
  LET shift == Scale + e - precision
  IN  IF shift > Scale THEN [m |-> m, e |-> shift]
      ELSE IF shift >= 0 THEN [m |-> m * Pow10(shift), e |-> 0]
      ELSE IF shift < -9 THEN [m |-> 0, e |-> 0]
      ELSE [m |-> m \div Pow10(0 - shift), e |-> 0]

\* return amount
ReturnAmount(k, amount) ==
  [k EXCEPT !.pc = "done", !.outcome = "value", !.ret = amount.m, !.retExp = amount.e]

\* human amounts up to 1, in steps finer than any token's precision
FineAmounts == 0..Human(1)

\* an amount is converted to units, as the swaps do with their arguments ...
SmartContract_amountToUnits(c) ==
  /\ Callable(c)
  /\ \E token \in Tokens, amount \in FineAmounts, tokenDecimals \in DecimalsChoices,
        queryOk \in BOOLEAN :
       LET precision == ResolvePrecision(token, tokenDecimals, queryOk)
           units == amountToUnitsAt(amount, precision)
       IN  call' = [call EXCEPT ![c] =
                      [NewCall("SmartContract.amountToUnits", "alice", FALSE)
                         EXCEPT !.tokenIn = token, !.amount = amount,
                                !.inDec = tokenDecimals, !.queriedIn = queryOk,
                                !.precIn = precision,
                                !.units = units.m, !.unitsExp = units.e]]
  /\ UNCHANGED chain

\* variant: the units are converted back with the precision of the other token
SmartContract_unitsToAmount_otherToken(c) ==
  /\ At(c, "SmartContract.amountToUnits", "built")
  /\ \E queryOk \in BOOLEAN :
       LET k == call[c]
           precision == ResolvePrecision(OtherToken(k.tokenIn), k.inDec, queryOk)
       IN  call' = [call EXCEPT ![c] =
                      ReturnAmount([k EXCEPT !.queriedOut = queryOk, !.precOut = precision],
                                   unitsToAmountAt(k.units, k.unitsExp, precision))]
  /\ UNCHANGED chain

\* ... and the units are converted back, as getReserve does with a balance
SmartContract_unitsToAmount(c) ==
  /\ At(c, "SmartContract.amountToUnits", "built")
  /\ \E queryOk \in BOOLEAN :
       LET k == call[c]
           precision == ResolvePrecision(k.tokenIn, k.inDec, queryOk)
       IN  call' = [call EXCEPT ![c] =
                      ReturnAmount([k EXCEPT !.queriedOut = queryOk, !.precOut = precision],
                                   unitsToAmountAt(k.units, k.unitsExp, precision))]
  /\ UNCHANGED chain

\* BPool.getSpotPrice(tokenIn, tokenOut, fee).call()
BPool_getSpotPrice(ch, tokenIn, tokenOut) ==
  (ch.reserve[tokenIn] * Pow10(MaxDecimals)) \div ch.reserve[tokenOut]

\* variant: a failed decimals() leaves the precision unset
getSpotPrice_decimals_noDefault(token, queryOk) ==
  IF queryOk THEN decimals(token) ELSE 0

\* let d = 18; try { d = await decimals(web3, token) } catch (e) { log }
getSpotPrice_decimals(token, queryOk) ==
  IF queryOk THEN decimals(token) ELSE DEFAULT_DECIMALS

\* the power of ten getSpotPrice multiplies the contract's price by
getSpotPrice_exponent(decimalsTokenIn, decimalsTokenOut) ==
  IF decimalsTokenIn > decimalsTokenOut
  THEN 0 - (decimalsTokenIn - decimalsTokenOut) - decimalsTokenOut
  ELSE 2 * (decimalsTokenOut - decimalsTokenIn) - decimalsTokenOut

\* Pool.getSpotPrice: the price is ret * 10^retExp; a failed price read
\* leaves price null, which the arithmetic takes for 0
Pool_getSpotPrice(c) ==
  /\ Callable(c)
  /\ \E tokenIn \in Tokens, swapMarketFee \in FeeChoices,
        inOk \in BOOLEAN, outOk \in BOOLEAN, priceOk \in BOOLEAN :
       LET tokenOut == OtherToken(tokenIn)
           decimalsTokenIn == getSpotPrice_decimals(tokenIn, inOk)
           decimalsTokenOut == getSpotPrice_decimals(tokenOut, outOk)
           price == IF priceOk THEN BPool_getSpotPrice(chain, tokenIn, tokenOut) ELSE 0
           k == [NewCall("Pool.getSpotPrice", "alice", FALSE)
                   EXCEPT !.tokenIn = tokenIn, !.tokenOut = tokenOut, !.arg = swapMarketFee,
                          !.queriedIn = inOk, !.queriedOut = outOk,
                          !.precIn = decimalsTokenIn, !.precOut = decimalsTokenOut,
                          !.calcCount = 1]
       IN  call' = [call EXCEPT ![c] =
                      ReturnAmount(k, [m |-> price,
                                       e |-> getSpotPrice_exponent(decimalsTokenIn,
                                                                   decimalsTokenOut)])]
  /\ UNCHANGED chain

InitUnits ==
  /\ chain = InitChain
  /\ call = [c \in Calls |-> NoCall]

NextUnits ==
  \E c \in DOMAIN call :
    \/ Settle(c)
    \/ SmartContract_amountToUnits(c)
    \/ SmartContract_unitsToAmount(c)
    \/ Pool_getSpotPrice(c)

SpecUnits == InitUnits /\ [][NextUnits]_vars

\* the human amount has no digit beyond the given precision
Representable(amount, precision) == amount % Pow10(Scale - precision) = 0

\* C16: an amount exactly representable at the precision of its token, taken
\* to units and back for that token (no override, or the token's own precision
\* as override, and the token answering its decimals()), comes back unchanged.
C16_RoundTrip ==
  \A c \in DOMAIN call :
    LET k == call[c]
    IN  (/\ k.op = "SmartContract.amountToUnits" /\ k.pc = "done"
         /\ k.inDec \in {0, decimals(k.tokenIn)}
         /\ k.queriedIn /\ k.queriedOut
         /\ Representable(k.amount, decimals(k.tokenIn)))
        => k.ret = k.amount /\ k.retExp = 0

\* a fraction of a base token, no override, gone to units and back
C16_Witness ==
  \E c \in DOMAIN call :
    LET k == call[c]
    IN  /\ k.op = "SmartContract.amountToUnits" /\ k.pc = "done"
        /\ k.tokenIn = "baseToken" /\ k.inDec = 0
        /\ k.queriedIn /\ k.queriedOut
        /\ k.amount > 0 /\ k.amount < Human(1)
        /\ Representable(k.amount, decimals(k.tokenIn))
        /\ k.units > 0
        /\ k.ret = k.amount /\ k.retExp = 0

----------------------------------------------------------------------------
(* Two swaps in flight against the same pool *)

RaceCalls == {1, 2}

InitRace ==
  /\ chain = InitChain
  /\ call = [c \in RaceCalls |-> NoCall]

NextRace ==
  \E c \in DOMAIN call :
    \/ Settle(c)
    \/ swapExactAmountIn_from(c, {0}, {0}, {FALSE})

SpecRace == InitRace /\ [][NextRace]_vars

\* the swap-in bound of the reserve as it stood when call k was submitted
BoundAtSend(k) ==
  calcMaxExactIn(k.sendChain.reserve[k.tokenIn] * Pow10(Scale - decimals(k.tokenIn)))

\* C18: calls are not serialised. A swap is submitted with an amount above the
\* bound of the reserve at submission only when it had passed its own check
\* against the reserve it read and a trade landed in between and lowered that
\* reserve; such an interleaving of two concurrent swaps is reachable.
C18_OverBoundOnlyWhenStale ==
  \A c \in DOMAIN call :
    LET k == call[c]
    IN  (/\ k.op = "Pool.swapExactAmountIn"
         /\ k.sendCount > 0
         /\ k.amount > BoundAtSend(k))
        => /\ k.amount <= k.maxSwap
           /\ k.maxSwap = BoundFound(k)
           /\ k.sendChain.txCount > k.chain0.txCount
           /\ k.sendChain.reserve[k.tokenIn] < k.chain0.reserve[k.tokenIn]

\* one swap passed its check, the other's trade landed, the first was submitted
C18_Witness ==
  \E c1, c2 \in DOMAIN call :
    /\ c1 # c2
    /\ call[c1].op = "Pool.swapExactAmountIn" /\ call[c2].op = "Pool.swapExactAmountIn"
    /\ call[c2].outcome = "receipt"
    /\ call[c2].tokenOut = call[c1].tokenIn
    /\ call[c1].chain0 = call[c2].chain0
    /\ call[c1].amount <= call[c1].maxSwap
    /\ call[c1].sendCount = 1
    /\ call[c1].sendChain = chain
    /\ call[c1].sendArgs[4] = Units(amountToUnits(call[c1].tokenIn, call[c1].amount, 0))
    /\ call[c1].amount > BoundAtSend(call[c1])

\* ---------------------------------------------------------------------------
\* Roles of the data NFT (test/unit/tokens/Nft.test.ts).  The NFT is created
\* for its owner, who is a manager from the start; every other role is empty.
\* ---------------------------------------------------------------------------

\* await nftDatatoken.getNftPermissions(nftAddress, user1) / isErc20Deployer
getNftPermissions(ch, address) ==
  [manager |-> address \in ch.nft.manager,
   deployERC20 |-> address \in ch.nft.deployERC20,
   updateMetadata |-> address \in ch.nft.updateMetadata,
   store |-> address \in ch.nft.store]

\* Who may call an operation: the owner for the manager role, the transfer and
\* the clean-up, a metadata updater for the metadata, a manager for the other
\* three roles.
Nft_allowed_managerForAll(ch, gate, address) ==
  getNftPermissions(ch, address).manager

Nft_allowed_orDeployer(ch, gate, address) ==
  IF gate = "Caller is not NFT Owner"
  THEN address = ch.nft.owner
  ELSE getNftPermissions(ch, address).manager \/ getNftPermissions(ch, address).deployERC20

Nft_allowed(ch, gate, address) ==
  CASE gate = "Caller is not NFT Owner" -> address = ch.nft.owner
    [] gate = "Caller is not Metadata updater" -> getNftPermissions(ch, address).updateMetadata
    [] OTHER -> getNftPermissions(ch, address).manager

\* The role set after the contract has run the method.
ERC721_setRole_keeps(ch, role, add, target) ==
  [ch EXCEPT !.nft[role] = @ \cup {target}]

ERC721_setRole(ch, role, add, target) ==
  [ch EXCEPT !.nft[role] = IF add THEN @ \cup {target} ELSE @ \ {target}]

\* One role operation: the caller's role is looked up and the call fails with
\* `denied` when it is missing; otherwise gas is estimated and the method is
\* sent with the target's address.  The contract makes the same check as the
\* client, on the state it holds when the transaction arrives.
Nft_roleOp(c, op, role, add, gate, denied) ==
  \/ /\ Callable(c)
     /\ \E address \in Accounts, target \in Accounts :
          LET k == [NewCall(op, address, FALSE) EXCEPT !.addr = target]
          IN  call' = [call EXCEPT ![c] =
                         IF Nft_allowed(chain, gate, address) THEN k ELSE Throw(k, denied)]
     /\ UNCHANGED chain
  \/ EstimateNoFlag(c, op, op, <<Address(call[c].addr)>>)
  \/ /\ At(c, op, "estimated")
     /\ LET k == AfterSend(call[c], op, <<Address(call[c].addr)>>, call[c].estGas + 1)
        IN  \/ /\ Nft_allowed(chain, gate, call[c].caller)
               /\ chain' = ERC721_setRole(chain, role, add, call[c].addr)
               /\ call' = [call EXCEPT ![c] = ReturnReceipt(k)]
            \/ /\ UNCHANGED chain
               /\ call' = [call EXCEPT ![c] = Throw(k, "Reverted")]

Nft_addManager(c) ==
  Nft_roleOp(c, "addManager", "manager", TRUE, "Caller is not NFT Owner", "Caller is not NFT Owner")

Nft_removeManager(c) ==
  Nft_roleOp(c, "removeManager", "manager", FALSE, "Caller is not NFT Owner", "Caller is not NFT Owner")

Nft_addErc20Deployer(c) ==
  Nft_roleOp(c, "addErc20Deployer", "deployERC20", TRUE, "Caller is not Manager", "Caller is not Manager")

Nft_removeErc20Deployer(c) ==
  Nft_roleOp(c, "removeErc20Deployer", "deployERC20", FALSE, "Caller is not Manager",
             "Caller is not Manager nor ERC20Deployer")

Nft_addMetadataUpdater(c) ==
  Nft_roleOp(c, "addMetadataUpdater", "updateMetadata", TRUE, "Caller is not Manager", "Caller is not Manager")

Nft_removeMetadataUpdater(c) ==
  Nft_roleOp(c, "removeMetadataUpdater", "updateMetadata", FALSE, "Caller is not Manager",
             "Caller is not Manager nor Metadata Updater")

Nft_addStoreUpdater(c) ==
  Nft_roleOp(c, "addStoreUpdater", "store", TRUE, "Caller is not Manager", "Caller is not Manager")

Nft_removeStoreUpdater(c) ==
  Nft_roleOp(c, "removeStoreUpdater", "store", FALSE, "Caller is not Manager",
             "Caller is not Manager nor storeUpdater")

\* ERC721Template.cleanPermissions: every role list is emptied, the managers'
\* included.
ERC721_cleanPermissions_keepsDeployers(ch) ==
  [ch EXCEPT !.nft.manager = {}, !.nft.updateMetadata = {}, !.nft.store = {}]

ERC721_cleanPermissions(ch) ==
  [ch EXCEPT !.nft.manager = {}, !.nft.deployERC20 = {},
             !.nft.updateMetadata = {}, !.nft.store = {}]

\* ERC721Template.transferFrom: the permissions are cleaned, the receiver
\* becomes the owner and a manager.
ERC721_transferFrom(ch, nftReceiver) ==
  [ERC721_cleanPermissions(ch) EXCEPT !.nft.owner = nftReceiver,
                                      !.nft.manager = {nftReceiver}]

\* An operation of the Nft class guarded by a permission of the caller: the
\* permission is looked up and the call fails with `denied` when it is
\* missing; otherwise gas is estimated and the method is sent.  `arg` ranges
\* over the operation's parameter, `args` are the method's arguments and
\* `effect` is the contract's state once the transaction is confirmed.
Nft_guardedOp(c, op, params, gate, denied, args, effect) ==
  \/ /\ Callable(c)
     /\ \E address \in Accounts, p \in params :
          LET k == [NewCall(op, address, FALSE) EXCEPT !.addr = p.addr, !.arg = p.arg]
          IN  call' = [call EXCEPT ![c] =
                         IF Nft_allowed(chain, gate, address) THEN k ELSE Throw(k, denied)]
     /\ UNCHANGED chain
  \/ EstimateNoFlag(c, op, op, args)
  \/ /\ At(c, op, "estimated")
     /\ LET k == AfterSend(call[c], op, args, call[c].estGas + 1)
        IN  \/ /\ Nft_allowed(chain, gate, call[c].caller)
               /\ chain' = effect
               /\ call' = [call EXCEPT ![c] = ReturnReceipt(k)]
            \/ /\ UNCHANGED chain
               /\ call' = [call EXCEPT ![c] = Throw(k, "Reverted")]

Nft_cleanPermissions(c) ==
  Nft_guardedOp(c, "cleanPermissions", {[addr |-> "alice", arg |-> 0]},
                "Caller is not NFT Owner", "Caller is not NFT Owner",
                <<>>, ERC721_cleanPermissions(chain))

Nft_transferNft(c) ==
  Nft_guardedOp(c, "transferNft", {[addr |-> a, arg |-> 1] : a \in Accounts},
                "Caller is not NFT Owner", "Caller is not NFT Owner",
                <<Address(call[c].caller), Address(call[c].addr), Number(call[c].arg)>>,
                ERC721_transferFrom(chain, call[c].addr))

\* ERC721Template.setMetaData / setMetaDataState: the stored state becomes
\* the one given.
ERC721_setMetaDataState(ch, metadataState) ==
  [ch EXCEPT !.nft.metadataState = metadataState]

\* The metadata states the tests use: META_DATA_STATE and the state set next.
MetadataStates == {[addr |-> "alice", arg |-> n] : n \in {1, 2}}

Nft_setMetadata(c) ==
  Nft_guardedOp(c, "setMetadata", MetadataStates,
                "Caller is not Metadata updater", "Caller is not Metadata updater",
                <<Number(call[c].arg)>>, ERC721_setMetaDataState(chain, call[c].arg))

Nft_setMetadataState(c) ==
  Nft_guardedOp(c, "setMetadataState", MetadataStates,
                "Caller is not Metadata updater", "Caller is not Metadata updater",
                <<Number(call[c].arg)>>, ERC721_setMetaDataState(chain, call[c].arg))

NextNft ==
  \E c \in DOMAIN call :
    \/ Settle(c)
    \/ Nft_setMetadata(c)
    \/ Nft_setMetadataState(c)
    \/ Nft_cleanPermissions(c)
    \/ Nft_transferNft(c)
    \/ Nft_addManager(c)
    \/ Nft_removeManager(c)
    \/ Nft_addErc20Deployer(c)
    \/ Nft_removeErc20Deployer(c)
    \/ Nft_addMetadataUpdater(c)
    \/ Nft_removeMetadataUpdater(c)
    \/ Nft_addStoreUpdater(c)
    \/ Nft_removeStoreUpdater(c)

SpecNft == Init /\ [][NextNft]_vars

ManagerOps == {"addManager", "removeManager"}

ManagedAddOps == {"addErc20Deployer", "addMetadataUpdater", "addStoreUpdater"}

RoleAddOps == {"addManager"} \cup ManagedAddOps

RoleRemoveOps ==
  {"removeManager", "removeErc20Deployer", "removeMetadataUpdater", "removeStoreUpdater"}

\* The role an operation grants or revokes, as the role query names it.
RoleOf(op) ==
  CASE op \in ManagerOps -> "manager"
    [] op \in {"addErc20Deployer", "removeErc20Deployer"} -> "deployERC20"
    [] op \in {"addMetadataUpdater", "removeMetadataUpdater"} -> "updateMetadata"
    [] OTHER -> "store"

\* C19: addManager and removeManager succeed only for the NFT owner and fail
\* with 'Caller is not NFT Owner' for anyone else; addErc20Deployer,
\* addMetadataUpdater and addStoreUpdater succeed only for a manager and fail
\* with 'Caller is not Manager' for anyone else; a rejected call sends nothing
\* and leaves every permission as it was.
C19_RoleOpsAuthorised ==
  \A c \in DOMAIN call :
    LET k == call[c] IN
      /\ (k.op \in ManagerOps /\ k.pc # "idle") =>
           IF k.caller = k.chain0.nft.owner
           THEN k.error # "Caller is not NFT Owner"
           ELSE /\ k.pc = "done" /\ k.outcome = "error"
                /\ k.error = "Caller is not NFT Owner"
                /\ k.sendCount = 0 /\ k.estCount = 0
                /\ chain.nft = k.chain0.nft
      /\ (k.op \in ManagedAddOps /\ k.pc # "idle") =>
           IF getNftPermissions(k.chain0, k.caller).manager
           THEN k.error # "Caller is not Manager"
           ELSE /\ k.pc = "done" /\ k.outcome = "error"
                /\ k.error = "Caller is not Manager"
                /\ k.sendCount = 0 /\ k.estCount = 0
                /\ chain.nft = k.chain0.nft

\* A manager who is not the owner is refused addManager, and a caller who is
\* not a manager is refused a role grant.
C19_Witness ==
  \E c \in DOMAIN call :
    /\ call[c].op = "addManager"
    /\ call[c].error = "Caller is not NFT Owner"
    /\ getNftPermissions(chain, call[c].caller).manager
    /\ call[c].addr \notin chain.nft.manager

\* C20: for each of the four roles and any target, the role query answers
\* true once an add has succeeded and false once a remove has succeeded.
C20_AddThenRemove ==
  \A c \in DOMAIN call :
    LET k == call[c]
        held == getNftPermissions(chain, k.addr)[RoleOf(k.op)]
    IN  (k.pc = "done" /\ k.outcome = "receipt") =>
          /\ k.op \in RoleAddOps => held
          /\ k.op \in RoleRemoveOps => ~held

\* A remove that succeeded on a target holding the role, which only an earlier
\* successful add can have given it.
C20_Witness ==
  \E c \in DOMAIN call :
    /\ call[c].op = "removeStoreUpdater"
    /\ call[c].outcome = "receipt"
    /\ call[c].addr \in call[c].chain0.nft.store
    /\ ~getNftPermissions(chain, call[c].addr).store

\* C21: removeErc20Deployer called by an account that holds the ERC20Deployer
\* role but is not a manager, with itself as the target, fails with
\* 'Caller is not Manager nor ERC20Deployer', and the account still holds the
\* role afterwards.
C21_DeployerCannotRemoveItself ==
  \A c \in DOMAIN call :
    LET k == call[c]
        before == getNftPermissions(k.chain0, k.caller)
    IN  (/\ k.op = "removeErc20Deployer" /\ k.pc # "idle"
         /\ k.addr = k.caller
         /\ before.deployERC20 /\ ~before.manager) =>
          /\ k.pc = "done" /\ k.outcome = "error"
          /\ k.error = "Caller is not Manager nor ERC20Deployer"
          /\ k.estCount = 0 /\ k.sendCount = 0
          /\ getNftPermissions(chain, k.caller).deployERC20

C21_Witness ==
  \E c \in DOMAIN call :
    /\ call[c].op = "removeErc20Deployer"
    /\ call[c].addr = call[c].caller
    /\ call[c].caller \in call[c].chain0.nft.deployERC20
    /\ call[c].caller \notin call[c].chain0.nft.manager
    /\ call[c].error = "Caller is not Manager nor ERC20Deployer"

\* C22: cleanPermissions succeeds only for the current NFT owner and fails
\* with 'Caller is not NFT Owner' for anyone else, leaving the permissions as
\* they were; once it has succeeded no account holds the ERC20Deployer role
\* and no earlier owner holds the manager role.
C22_CleanPermissions ==
  \A c \in DOMAIN call :
    LET k == call[c] IN
      (k.op = "cleanPermissions" /\ k.pc # "idle") =>
        /\ k.caller # k.chain0.nft.owner =>
             /\ k.pc = "done" /\ k.outcome = "error"
             /\ k.error = "Caller is not NFT Owner"
             /\ k.estCount = 0 /\ k.sendCount = 0
             /\ chain.nft = k.chain0.nft
        /\ k.caller = k.chain0.nft.owner => k.error # "Caller is not NFT Owner"
        /\ k.outcome = "receipt" =>
             /\ k.caller = chain.nft.owner
             /\ \A a \in Accounts : ~getNftPermissions(chain, a).deployERC20
             /\ \A a \in Accounts \ {chain.nft.owner} : ~getNftPermissions(chain, a).manager

\* The NFT has changed hands, the new owner granted roles, and the clean-up
\* by the new owner revoked a deployer and the earlier owner's manager role.
C22_Witness ==
  \E c \in DOMAIN call :
    /\ call[c].op = "cleanPermissions"
    /\ call[c].outcome = "receipt"
    /\ call[c].caller = "bob"
    /\ call[c].chain0.nft.deployERC20 # {}
    /\ "alice" \in call[c].chain0.nft.manager
    /\ ~getNftPermissions(chain, "alice").manager

MetadataOps == {"setMetadata", "setMetadataState"}

\* C23: setMetadata and setMetadataState succeed only for a caller holding the
\* updateMetadata permission; for a caller without it they fail with
\* 'Caller is not Metadata updater', send nothing, and leave the stored
\* metadata state and the caller's permissions as they were.  A call that
\* succeeds stores the state it was given.
C23_MetadataNeedsUpdater ==
  \A c \in DOMAIN call :
    LET k == call[c] IN
      (k.op \in MetadataOps /\ k.pc # "idle") =>
        /\ ~getNftPermissions(k.chain0, k.caller).updateMetadata =>
             /\ k.pc = "done" /\ k.outcome = "error"
             /\ k.error = "Caller is not Metadata updater"
             /\ k.estCount = 0 /\ k.sendCount = 0
             /\ chain.nft.metadataState = k.chain0.nft.metadataState
             /\ getNftPermissions(chain, k.caller) = getNftPermissions(k.chain0, k.caller)
        /\ getNftPermissions(k.chain0, k.caller).updateMetadata =>
             k.error # "Caller is not Metadata updater"
        /\ k.outcome = "receipt" =>
             /\ getNftPermissions(k.chain0, k.caller).updateMetadata
             /\ chain.nft.metadataState = k.arg

\* The state was set by an updater, and a caller without the permission was
\* then refused a different state.
C23_Witness ==
  \E c \in DOMAIN call :
    /\ call[c].op = "setMetadataState"
    /\ call[c].error = "Caller is not Metadata updater"
    /\ chain.nft.metadataState = 2
    /\ call[c].arg = 1

\* ---------------------------------------------------------------------------
\* Creating an NFT and querying it (NftFactory.createNFT, Nft.getTokenURI).
\* ---------------------------------------------------------------------------

TokenURIs == {NFT_TOKEN_URI, "https://anothernewurl.com/nft/"}

\* const tokenURI = await nftDatatoken.getTokenURI(nftAddress, 1)
Nft_getTokenURI(c) ==
  /\ Callable(c)
  /\ \E nftAddress \in 1..chain.nftCount :
       LET k == [NewCall("Nft.getTokenURI", "alice", FALSE) EXCEPT !.arg = nftAddress]
       IN  call' = [call EXCEPT ![c] =
                      [k EXCEPT !.pc = "done", !.outcome = "value",
                                !.tokenURI = chain.nftURIs[nftAddress]]]
  /\ UNCHANGED chain

\* The factory has created no NFT yet, or one with either URI.
InitCreate ==
  /\ \/ chain = InitChain
     \/ \E tokenURI \in TokenURIs :
          chain = ERC721_initialize(Factory_deployERC721Contract(InitChain), tokenURI)
  /\ call = [c \in Calls |-> NoCall]

NextCreate ==
  \E c \in DOMAIN call :
    \/ Settle(c)
    \/ createNFT_from(c, TokenURIs)
    \/ Nft_getTokenURI(c)

SpecCreate == InitCreate /\ [][NextCreate]_vars

\* C24: a confirmed createNFT returns the address of the NFT the transaction
\* created, the first return value of its NFTCreated event: an address that
\* did not exist before the call; the NFT at that address carries the token
\* URI that was asked for, and a later getTokenURI on an address answers the
\* URI stored for that address.
C24_CreateReturnsNewNft ==
  \A c \in DOMAIN call :
    LET k == call[c] IN
      /\ (k.op = "NftFactory.createNFT" /\ k.pc = "done" /\ k.sendCount = 1
          /\ k.outcome # "error") =>
           /\ k.outcome = "address"
           /\ k.ret = NFTCreated(chain)[1]
           /\ k.ret = k.chain0.nftCount + 1
           /\ k.ret \in 1..chain.nftCount
           /\ chain.nftURIs[k.ret] = k.tokenURI
           /\ \A a \in 1..k.chain0.nftCount : chain.nftURIs[a] = k.chain0.nftURIs[a]
      /\ (k.op = "Nft.getTokenURI" /\ k.pc = "done") =>
           k.tokenURI = chain.nftURIs[k.arg]

\* A second NFT was created with a URI other than the first one's, and the
\* query on the new address answers the new URI.
C24_Witness ==
  \E c \in DOMAIN call :
    /\ call[c].op = "Nft.getTokenURI"
    /\ call[c].pc = "done"
    /\ call[c].arg = 2
    /\ chain.txCount = 1
    /\ call[c].tokenURI # chain.nftURIs[1]

\* the amount the bound check of call k compares with the bound: the amount
\* asked for, and for exitSwapPoolAmountIn the base-token amount that
\* calcSingleOutGivenPoolIn computes for the pool shares
AmountChecked(k) ==
  IF k.op = "Pool.exitSwapPoolAmountIn"
  THEN unitsToAmount(k.tokenOut, BPool_calcSingleOutPoolIn(k.chain0, k.amount), 0)
  ELSE k.amount

FailFastOps ==
  {"Pool.swapExactAmountOut", "Pool.joinswapExternAmountIn", "Pool.exitSwapPoolAmountIn"}

\* C25: swapExactAmountOut with tokenAmountOut above maxSwapExactOut of
\* tokenOut, joinswapExternAmountIn with tokenAmountIn above maxAddLiquidity of
\* the base token, and exitSwapPoolAmountIn whose computed base-token amount
\* is above maxRemoveLiquidity of the base token are rejected: the call ends
\* with the amount-exceeds-bound error (or with the error of a failed read),
\* and neither gas estimation nor send is invoked.
C25_OtherBoundsFailFast ==
  \A c \in DOMAIN call :
    LET k == call[c]
    IN  (k.op \in FailFastOps /\ k.pc # "idle" /\ AmountChecked(k) > BoundFound(k))
        => /\ k.pc = "done"
           /\ k.outcome = "error"
           /\ k.error \in {"AmountExceedsBound", "TypeError", "DecimalError"}
           /\ k.error = "AmountExceedsBound" => k.errBound = BoundFound(k)
           /\ k.estCount = 0
           /\ k.sendCount = 0
           /\ chain = k.chain0

\* exitSwapPoolAmountIn, asked only for an estimate, was rejected for pool
\* shares worth more than the bound.
C25_Witness ==
  \E c \in DOMAIN call :
    /\ call[c].op = "Pool.exitSwapPoolAmountIn"
    /\ call[c].error = "AmountExceedsBound"
    /\ AmountChecked(call[c]) > BoundFound(call[c])
    /\ call[c].estimateOnly

\* the operations that check one of the four bounds before submitting
FourBoundOps == FailFastOps \cup {"Pool.swapExactAmountIn"}

\* the token whose reserve bounds the operation of call k
BoundedToken(k) ==
  IF k.op \in {"Pool.swapExactAmountIn", "Pool.joinswapExternAmountIn"}
  THEN k.tokenIn ELSE k.tokenOut

\* the bound call k compared its amount with: the one it passed, or the one
\* its rejection reports
BoundUsed(k) == IF k.error = "AmountExceedsBound" THEN k.errBound ELSE k.maxSwap

\* C26: each of the four bounds comes from exactly one reserve read and one
\* arithmetic step on the reserve read; for the same pool state and token the
\* add-liquidity, remove-liquidity and swap-exact-in bounds are the same
\* value, and that is the value the three operations check.
C26_FourBoundsOneRead ==
  \A c \in DOMAIN call :
    LET k == call[c]
        t == BoundedToken(k)
    IN  (k.op \in FourBoundOps /\ k.pc # "idle") =>
          /\ k.reserveReads = 1
          /\ k.error \notin {"TypeError", "DecimalError"} =>
               BoundUsed(k) = IF k.op = "Pool.swapExactAmountOut"
                              THEN calcMaxExactOut(ReserveFound(k, t))
                              ELSE calcMaxExactIn(ReserveFound(k, t))
          /\ \A ok \in BOOLEAN :
               /\ getMaxAddLiquidity(k.chain0, t, ok) = getMaxSwapExactIn(k.chain0, t, ok)
               /\ getMaxRemoveLiquidity(k.chain0, t, ok) = getMaxSwapExactIn(k.chain0, t, ok)
          /\ (k.op # "Pool.swapExactAmountOut" /\ k.error \notin {"TypeError", "DecimalError"}) =>
               BoundUsed(k) = getMaxSwapExactIn(k.chain0, t, TRUE).value

\* After a confirmed trade changed the base-token reserve, an add of liquidity
\* passed the check against the bound of the new reserve.
C26_Witness ==
  \E c \in DOMAIN call :
    /\ call[c].op = "Pool.joinswapExternAmountIn"
    /\ call[c].pc = "built"
    /\ call[c].chain0.reserve["baseToken"] # InitChain.reserve["baseToken"]
    /\ call[c].maxSwap = getMaxRemoveLiquidity(call[c].chain0, "baseToken", TRUE).value
    /\ call[c].maxSwap > 0

\* C27: in every mutating call that sends, the contract method and the
\* argument values handed to send are the ones gas was estimated for.
C27_SendWhatWasEstimated ==
  \A c \in DOMAIN call :
    LET k == call[c]
    IN  (k.op \in MutatingOps /\ k.sendCount > 0) =>
          /\ k.estCount = 1
          /\ k.sendMethod = k.estMethod
          /\ k.sendArgs = k.estArgs

\* The same statement for every mutating operation but setSwapFee.
C27_AllButSetSwapFee ==
  \A c \in DOMAIN call :
    LET k == call[c]
    IN  (k.op \in MutatingOps \ {"Pool.setSwapFee"} /\ k.sendCount > 0) =>
          /\ k.estCount = 1
          /\ k.sendMethod = k.estMethod
          /\ k.sendArgs = k.estArgs

CollectorOps == {"Pool.collectMarketFee", "Pool.updatePublishMarketFee"}

\* C28: collectMarketFee and updatePublishMarketFee called by an address other
\* than the pool's current publish-market fee collector fail with
\* 'Caller is not MarketFeeCollector' before any gas estimation or send, also
\* when only an estimate was asked for.
C28_OnlyCollector ==
  \A c \in DOMAIN call :
    LET k == call[c]
    IN  (k.op \in CollectorOps /\ k.pc # "idle" /\ k.caller # k.chain0.collector) =>
          /\ k.pc = "done"
          /\ k.outcome = "error"
          /\ k.error = "Caller is not MarketFeeCollector"
          /\ k.estCount = 0
          /\ k.sendCount = 0
          /\ chain = k.chain0

\* The collector has been replaced, and the former collector's request for an
\* estimate is refused.
C28_Witness ==
  \E c \in DOMAIN call :
    /\ call[c].op = "Pool.collectMarketFee"
    /\ call[c].estimateOnly
    /\ call[c].caller = InitChain.collector
    /\ call[c].chain0.collector # InitChain.collector
    /\ call[c].error = "Caller is not MarketFeeCollector"

\* the max-price argument a swap has to pass for the maxPrice it was given
MaxPriceArg(maxPrice) ==
  IF maxPrice = 0 THEN MAX_UINT_256
  ELSE Units(amountToUnits(getBasetoken, maxPrice, 0))

SwapOps == {"Pool.swapExactAmountIn", "Pool.swapExactAmountOut"}

\* C29: in swapExactAmountIn and swapExactAmountOut the max-price argument
\* handed to estimation and to send is MAX_UINT_256 when no maxPrice is given
\* and otherwise the resolved conversion of maxPrice to units at the base
\* token's decimals, never a conversion still pending.
C29_MaxPriceResolved ==
  \A c \in DOMAIN call :
    LET k == call[c]
    IN  (k.op \in SwapOps) =>
          /\ k.estCount > 0 => k.estArgs[6] = MaxPriceArg(k.maxPrice)
          /\ k.sendCount > 0 => k.sendArgs[6] = MaxPriceArg(k.maxPrice)

\* The same statement for swapExactAmountIn alone.
C29_SwapInMaxPriceResolved ==
  \A c \in DOMAIN call :
    LET k == call[c]
    IN  (k.op = "Pool.swapExactAmountIn") =>
          /\ k.estCount > 0 => k.estArgs[6] = MaxPriceArg(k.maxPrice)
          /\ k.sendCount > 0 => k.sendArgs[6] = MaxPriceArg(k.maxPrice)

\* C30: createNFT estimates gas and submits only with a template index between
\* 1 and the NFT template count whose template was active when the call
\* checked it; an index above the count or an inactive template makes the
\* call throw with nothing estimated or sent; a missing or zero templateIndex
\* is replaced by 1 before the checks, so createNFT never fails with
\* 'Template index cannot be ZERO'.
C30_CreateNftTemplateChecked ==
  \A c \in DOMAIN call :
    LET k == call[c]
        count == getCurrentNFTTemplateCount(k.chain0)
        usable == k.arg \in 1..count /\ k.chain0.nftTemplates[k.arg]
    IN  (k.op = "NftFactory.createNFT" /\ k.pc # "idle") =>
          /\ k.arg = IF k.amount = 0 THEN 1 ELSE k.amount
          /\ (k.estCount > 0 \/ k.sendCount > 0) => usable
          /\ ~usable =>
               /\ k.pc = "done" /\ k.outcome = "error"
               /\ k.error = IF k.arg > count THEN "Template index doesnt exist"
                            ELSE "Template is not active"
               /\ k.estCount = 0 /\ k.sendCount = 0
               /\ chain = k.chain0
          /\ k.error # "Template index cannot be ZERO"

\* A create without a template index was estimated with template 1, after a
\* confirmed transaction had changed the factory's templates.
C30_Witness ==
  \E c \in DOMAIN call :
    /\ call[c].op = "NftFactory.createNFT"
    /\ call[c].amount = 0
    /\ call[c].arg = 1
    /\ call[c].estCount = 1
    /\ call[c].chain0.nftTemplates # InitChain.nftTemplates

====
